---- MODULE Spec2Model ----
(***************************************************************************)
(* A model of the checkpoint controller, webhook server and policy         *)
(* reconciler (devsisters/checkpoint).                                     *)
(*                                                                         *)
(* The module holds state machines over disjoint variables:                *)
(*   Spec          - leader election among the controller processes        *)
(*                   (leader_election.rs);                                 *)
(*   MainSpec      - the same, with the main of one controller process     *)
(*                   followed task by task (bin/controller.rs);            *)
(*   RuleSpec      - the CA bundle reloader, the file watcher and the      *)
(*                   ValidatingRule / MutatingRule reconcilers;            *)
(*   AdmissionSpec - the validate / mutate HTTP handlers and the script    *)
(*                   host's kubeGet / kubeList helpers;                    *)
(*   PolicySpec    - the CronPolicy reconciler and its RBAC objects;       *)
(*   EvalSpec      - script evaluations of concurrent admission requests;  *)
(*   CheckerSpec   - the audit worker that a CronPolicy's CronJob runs;    *)
(*   PolicyAdmSpec - the mutating admission webhook for CronPolicies;      *)
(*   PluralSpec    - the RBAC resource name of a policy resource;          *)
(*   LookupSpec    - the Lua helper function lookup;                       *)
(*   TlsSpec       - the TLS material of the webhook server;               *)
(*   ExpirySpec    - lease_expired on any lease of the API;                *)
(*   RequeueSpec   - a controller and the result of a reconcile;           *)
(*   RolesSpec     - one reconcile of a CronPolicy and its RBAC objects;   *)
(*   FetchSpec     - the resources fetched for an audit script;            *)
(*   WatcherSpec   - a FileWatcher, its file and its handler calls;        *)
(*   CliSpec       - the rules of a case of the CLI test runner.           *)
(* Each specification leaves the other machines' variables unchanged.      *)
(***************************************************************************)
EXTENDS Integers, Sequences, FiniteSets, TLC

(***************************************************************************)
(* Bounds of the model and program constants                               *)
(***************************************************************************)
\* const LEASE_DURATION_SECONDS: u64 = 5;
LEASE_DURATION_SECONDS == 5
\* the clock stops advancing at MaxTime (seconds)
MaxTime == 7
\* how many Kubernetes API calls may fail in one behaviour
MaxApiFailures == 1

\* the controller processes competing for the lease (their hostnames)
Procs == {"p1", "p2"}
\* the three controller tasks main spawns
Ctrls == {"vr", "mr", "cp"}

NoLease == [exists |-> FALSE]
\* Option::None of a holder identity, and of an acquire / renew time
Null == "null"
NoTime == -1

VARIABLES
    \* ---- leader election and controller main -------------------------
    now,          \* wall clock, seconds
    lease,        \* the Lease object in the cluster, or NoLease
    pc,           \* per process: position of main / acquire_or_create
    seen,         \* per process: the lease as read by get_opt
    wakeAt,       \* per process: when tokio::time::sleep ends
    renew,        \* per process: state of the renewal task
    nextTick,     \* per process: next tick of the renewal interval
    ctrl,         \* per process: state of each controller task
    shutdown,     \* per process: the shutdown broadcast has been sent
    apiFailures,  \* failed API calls so far
    \* ---- CA bundle reloader and rule reconcilers ----------------------
    caFile,       \* content of the file at config.ca_bundle_path
    writes,       \* how often the file was written
    events,       \* file events waiting in the watcher's channel
    caBundle,     \* the shared RwLock<ByteString> of the reconcilers
    reload,       \* position and locals of the running reload_ca_bundle
    wcs,          \* the webhook configurations stored in the cluster
    rules,        \* spec of each ValidatingRule / MutatingRule
    queued,       \* per rule: a reconcile request is scheduled
    run,          \* per rule: the reconcile in flight and the object it built
    applied,      \* per rule: outcome of its last successful reconcile
    ruleEdits,    \* rule spec updates so far
    ruleFailures, \* failed API calls of the reloader and reconcilers so far
    \* ---- webhook server: admission handlers ---------------------------
    admPc,        \* position of the handler of the request in flight
    admReq,       \* the request: route, posted body, script host
    admRule,      \* the rule that get_opt returned
    admClient,    \* kube_client of the Lua context's app data
    admCalls,     \* helper calls the script has made
    lastCall,     \* the last helper call and its result
    tokenRequests, \* TokenRequests created for this request
    helperReads,  \* identities the helpers have read the cluster with
    lookedUp,     \* the rule has been looked up for this request
    evaluated,    \* a script host has been prepared for this request
    response,     \* what the handler has answered
    evalElapsed,  \* seconds the script of this request has been running
    admError,     \* the Error that validate / mutate returned, if any
    \* ---- CronPolicy reconciler ----------------------------------------
    polSpec,      \* spec.resources of the CronPolicy
    polQueued,    \* a reconcile of the policy is scheduled
    polRun,       \* the reconcile in flight: the spec it read, applies left
    objects,      \* ServiceAccount, RBAC objects and CronJob in the cluster
    polReconciled, \* the spec of the last reconcile that returned Ok
    polEdits,     \* spec updates so far
    polFailures,  \* failed applies so far
    \* ---- concurrent script evaluations ---------------------------------
    evReq,        \* per request: script host and uid of the request
    evPc,         \* per request: position of its handler
    evThread,     \* per request: state of its dedicated thread
    evSandbox,    \* per request: number of the sandbox it evaluates in
    sandboxes,    \* the sandboxes made so far: request global and output
    evResult,     \* per request: the result its thread computed
    evChannel,    \* per request: its one-shot channel
    evOutcome,    \* per request: what its handler got
    evReceived,   \* per request: values its handler took from the channel
    \* ---- audit worker ---------------------------------------------------
    ckPc,         \* position of the worker's main
    ckNotifications, \* the notifications of its configuration
    ckOutput,     \* the output the script left
    ckSent,       \* notifications delivered
    ckAttempts,   \* the notifications notify has attempted, in its order
    ckExit,       \* exit status of the process (NoTime: still running)
    \* ---- webhook server: CronPolicy admission ---------------------------
    paPc,         \* position of mutate_cronpolicy
    paReq,        \* the posted CronPolicy's resources and the cluster
    paCp,         \* cp.spec.resources as mutated so far
    paNext,       \* index of the resource the loop is at
    paResponse,   \* what the handler has answered
    \* ---- RBAC resource names --------------------------------------------
    plPc,         \* a resource name has been computed
    plKind,       \* the kind of the resource
    plPlural,     \* its explicit plural, if any
    plResult,     \* the resource name, or the panic
    \* ---- the Lua helper lookup ------------------------------------------
    lkPc,         \* lookup has been called
    lkV,          \* its first argument
    lkKeys,       \* the keys that follow
    lkResult,     \* what it returned
    \* ---- webhook server: TLS material -----------------------------------
    tlsRunning,   \* the server runs (no shutdown signal yet)
    tlsDisk,      \* the generation of the certificate and key file on disk
    tlsServed,    \* the generations the server's TLS config holds
    tlsWatched,   \* per file: the watcher still has a watch on its path
    tlsChannel,   \* messages waiting in the reload channel
    tlsLastReload, \* outcome of the last reload_config
    tlsWatchErrors,\* errors the watcher has reported
    \* ---- the expiry of a lease ------------------------------------------
    exPc,         \* lease_expired has been called
    exLease,      \* the spec of the lease it was given
    exNow,        \* the time of the call
    exResult,     \* what it returned, or the panic
    \* ---- a controller and one of its objects ----------------------------
    rqNow,        \* wall clock, seconds
    rqPc,         \* where the object is: queued, running, waiting or idle
    rqRunAt,      \* the time of the timed requeue (NoTime: none)
    rqApplied,    \* the managed objects of the current spec are applied
    rqController, \* the controller's stream: running or ended
    rqFailures,   \* API failures so far
    rqEdits,      \* changes of the object so far
    \* ---- the RBAC objects made for a policy -----------------------------
    rbPc,         \* where make_roles_and_clusterroles is
    rbArgs,       \* the job namespace and the resources it was given
    rbPending,    \* the namespaces whose Role future has not finished
    rbRoles,      \* the Roles try_collect has taken, in its order
    rbTodo,       \* the objects the reconcile has still to apply
    rbWritten,    \* the objects it has applied, in the order of the applies
    rbOut,        \* what it returned
    \* ---- the resources the audit worker fetches -------------------------
    ftPc,         \* where main and fetch_resources are
    ftList,       \* config.resources
    ftCalls,      \* per resource: the API request its future made
    ftResults,    \* per resource: the outcome of its future, or pending
    ftOrder,      \* the resources in the order their futures finished
    ftOut,        \* what fetch_resources returned
    ftScript,     \* the resources the script was run with, if it was run
    \* ---- a FileWatcher and its file -------------------------------------
    fwInode,      \* the inode at the watched path (a replace gives a new one)
    fwWatch,      \* the inode the watcher's watch is on (0: none)
    fwQueue,      \* events notify has seen and not yet sent into the channel
    fwChannel,    \* the bounded channel to the watcher loop
    fwPc,         \* the watcher loop: recv, handler or ended
    fwRunning,    \* handler calls in progress
    fwCalls,      \* the events the handler was called with, in order
    fwSeen,       \* the changes made when the last handler call began
    fwLog,        \* the errors the loop has logged
    fwStopped,    \* the stopper has stopped
    fwChanges,    \* changes of the file so far
    fwErrors,     \* errors the watcher backend has reported so far
    \* ---- a case of the CLI test runner ----------------------------------
    clPc,         \* run_case: idle, mutating, validating, compare or error
    clCase,       \* the rules the case is run with
    clIndex,      \* the place of the loop in its rules
    clRequest,    \* request.object: the labels the rules have patched in
    clActual,     \* the CaseResult `actual`
    clResults     \* the rules evaluated so far, with what each saw and gave

leaseVars == <<now, lease, pc, seen, wakeAt, renew, nextTick, ctrl, shutdown,
               apiFailures>>
ruleVars == <<caFile, writes, events, caBundle, reload, wcs, rules, queued,
              run, applied, ruleEdits, ruleFailures>>

admVars == <<admPc, admReq, admRule, admClient, admCalls, lastCall,
             tokenRequests, helperReads, lookedUp, evaluated, response,
             evalElapsed, admError>>

policyVars == <<polSpec, polQueued, polRun, objects, polReconciled, polEdits,
                polFailures>>

evalVars == <<evReq, evPc, evThread, evSandbox, sandboxes, evResult,
              evChannel, evOutcome, evReceived>>

checkerVars ==
    <<ckPc, ckNotifications, ckOutput, ckSent, ckAttempts, ckExit>>

policyAdmVars == <<paPc, paReq, paCp, paNext, paResponse>>

pluralVars == <<plPc, plKind, plPlural, plResult>>

lookupVars == <<lkPc, lkV, lkKeys, lkResult>>

tlsVars == <<tlsRunning, tlsDisk, tlsServed, tlsWatched, tlsChannel,
             tlsLastReload, tlsWatchErrors>>

expiryVars == <<exPc, exLease, exNow, exResult>>

requeueVars == <<rqNow, rqPc, rqRunAt, rqApplied, rqController, rqFailures,
                 rqEdits>>

rolesVars ==
    <<rbPc, rbArgs, rbPending, rbRoles, rbTodo, rbWritten, rbOut>>

fetchVars == <<ftPc, ftList, ftCalls, ftResults, ftOrder, ftOut, ftScript>>

fwVars == <<fwInode, fwWatch, fwQueue, fwChannel, fwPc, fwRunning, fwCalls,
            fwSeen, fwLog, fwStopped, fwChanges, fwErrors>>

cliVars == <<clPc, clCase, clIndex, clRequest, clActual, clResults>>

vars == <<leaseVars, ruleVars, admVars, policyVars, evalVars, checkerVars,
          policyAdmVars, pluralVars, lookupVars, tlsVars, expiryVars,
          requeueVars, rolesVars, fetchVars, fwVars, cliVars>>
\* what the steps of each machine leave alone
notLeaseVars ==
    <<ruleVars, admVars, policyVars, evalVars, checkerVars, policyAdmVars,
      pluralVars, lookupVars, tlsVars, expiryVars, requeueVars, rolesVars,
      fetchVars, fwVars, cliVars>>
notRuleVars ==
    <<leaseVars, admVars, policyVars, evalVars, checkerVars, policyAdmVars,
      pluralVars, lookupVars, tlsVars, expiryVars, requeueVars, rolesVars,
      fetchVars, fwVars, cliVars>>
notAdmVars ==
    <<leaseVars, ruleVars, policyVars, evalVars, checkerVars, policyAdmVars,
      pluralVars, lookupVars, tlsVars, expiryVars, requeueVars, rolesVars,
      fetchVars, fwVars, cliVars>>
notPolicyVars ==
    <<leaseVars, ruleVars, admVars, evalVars, checkerVars, policyAdmVars,
      pluralVars, lookupVars, tlsVars, expiryVars, requeueVars, rolesVars,
      fetchVars, fwVars, cliVars>>
notEvalVars ==
    <<leaseVars, ruleVars, admVars, policyVars, checkerVars, policyAdmVars,
      pluralVars, lookupVars, tlsVars, expiryVars, requeueVars, rolesVars,
      fetchVars, fwVars, cliVars>>
notCheckerVars ==
    <<leaseVars, ruleVars, admVars, policyVars, evalVars, policyAdmVars,
      pluralVars, lookupVars, tlsVars, expiryVars, requeueVars, rolesVars,
      fetchVars, fwVars, cliVars>>
notPolicyAdmVars ==
    <<leaseVars, ruleVars, admVars, policyVars, evalVars, checkerVars,
      pluralVars, lookupVars, tlsVars, expiryVars, requeueVars, rolesVars,
      fetchVars, fwVars, cliVars>>
notPluralVars ==
    <<leaseVars, ruleVars, admVars, policyVars, evalVars, checkerVars,
      policyAdmVars, lookupVars, tlsVars, expiryVars, requeueVars, rolesVars,
      fetchVars, fwVars, cliVars>>
notLookupVars ==
    <<leaseVars, ruleVars, admVars, policyVars, evalVars, checkerVars,
      policyAdmVars, pluralVars, tlsVars, expiryVars, requeueVars, rolesVars,
      fetchVars, fwVars, cliVars>>
notTlsVars ==
    <<leaseVars, ruleVars, admVars, policyVars, evalVars, checkerVars,
      policyAdmVars, pluralVars, lookupVars, expiryVars, requeueVars,
      rolesVars, fetchVars, fwVars, cliVars>>
notExpiryVars ==
    <<leaseVars, ruleVars, admVars, policyVars, evalVars, checkerVars,
      policyAdmVars, pluralVars, lookupVars, tlsVars, requeueVars, rolesVars,
      fetchVars, fwVars, cliVars>>
notRequeueVars ==
    <<leaseVars, ruleVars, admVars, policyVars, evalVars, checkerVars,
      policyAdmVars, pluralVars, lookupVars, tlsVars, expiryVars, rolesVars,
      fetchVars, fwVars, cliVars>>
notRolesVars ==
    <<leaseVars, ruleVars, admVars, policyVars, evalVars, checkerVars,
      policyAdmVars, pluralVars, lookupVars, tlsVars, expiryVars, requeueVars,
      fetchVars, fwVars, cliVars>>
notFetchVars ==
    <<leaseVars, ruleVars, admVars, policyVars, evalVars, checkerVars,
      policyAdmVars, pluralVars, lookupVars, tlsVars, expiryVars, requeueVars,
      rolesVars, fwVars, cliVars>>
notFwVars ==
    <<leaseVars, ruleVars, admVars, policyVars, evalVars, checkerVars,
      policyAdmVars, pluralVars, lookupVars, tlsVars, expiryVars, requeueVars,
      rolesVars, fetchVars, cliVars>>
notCliVars ==
    <<leaseVars, ruleVars, admVars, policyVars, evalVars, checkerVars,
      policyAdmVars, pluralVars, lookupVars, tlsVars, expiryVars, requeueVars,
      rolesVars, fetchVars, fwVars>>

(***************************************************************************)
(* leader_election.rs                                                      *)
(***************************************************************************)

\* fn lease_expired(lease: &KubeLease) -> bool
lease_expired(l, t) ==
    IF l.renewTime # NoTime THEN t > l.renewTime + l.duration
    ELSE IF l.acquireTime # NoTime THEN t > l.acquireTime + l.duration
    ELSE TRUE

\* the apply patch of a take-over that starts leaseTransitions again at 1
AcquiredLeaseCountingAnew(l, identity, t) ==
    [exists |-> TRUE,
     holder |-> identity,
     acquireTime |-> t,
     renewTime |-> NoTime,
     duration |-> LEASE_DURATION_SECONDS,
     transitions |-> 1,
     rv |-> l.rv + 1]

\* the body of the apply patch that takes an expired lease over (lines 42-55);
\* an unset leaseTransitions is first set to 0 (lines 46-51)
AcquiredLease(l, identity, t) ==
    [exists |-> TRUE,
     holder |-> identity,
     acquireTime |-> t,
     renewTime |-> NoTime,
     duration |-> LEASE_DURATION_SECONDS,
     transitions |-> (IF l.transitions = NoTime THEN 0 ELSE l.transitions) + 1,
     rv |-> l.rv + 1]

\* the object posted by the create branch (lines 79-97)
CreatedLease(identity, t) ==
    [exists |-> TRUE,
     holder |-> identity,
     acquireTime |-> t,
     renewTime |-> NoTime,
     duration |-> LEASE_DURATION_SECONDS,
     transitions |-> 1,
     rv |-> 1]

\* the API server stores a patched object: the resourceVersion changes when
\* the object does
Stored(old, new) == IF [new EXCEPT !.rv = old.rv] = old THEN old ELSE new

\* the merge patch of the renewal task (lines 126-134)
RenewedLease(l, t) == Stored(l, [l EXCEPT !.renewTime = t, !.rv = l.rv + 1])

\* a release patch that leaves holderIdentity in place
ReleasedLeaseKeepingHolder(l) ==
    Stored(l, [l EXCEPT !.renewTime = NoTime, !.acquireTime = NoTime,
                        !.rv = l.rv + 1])

\* the merge patch that releases the lease (lines 141-151)
ReleasedLease(l) ==
    Stored(l, [l EXCEPT !.renewTime = NoTime, !.acquireTime = NoTime,
                        !.holder = Null, !.rv = l.rv + 1])

NoCtrl == [c \in Ctrls |-> "none"]

LeaseInit ==
    /\ now = 0
    /\ lease = NoLease
    /\ pc = [p \in Procs |-> "probe"]
    /\ seen = [p \in Procs |-> NoLease]
    /\ wakeAt = [p \in Procs |-> 0]
    /\ renew = [p \in Procs |-> "none"]
    /\ nextTick = [p \in Procs |-> 0]
    /\ ctrl = [p \in Procs |-> NoCtrl]
    /\ shutdown = [p \in Procs |-> FALSE]
    /\ apiFailures = 0

\* a Lease object of the name that another client left in the namespace
\* before the processes start: no holder, no times, no leaseTransitions
ForeignLease ==
    [exists |-> TRUE,
     holder |-> Null,
     acquireTime |-> NoTime,
     renewTime |-> NoTime,
     duration |-> LEASE_DURATION_SECONDS,
     transitions |-> NoTime,
     rv |-> 1]

\* get_opt (line 34) can find a lease that none of the processes created
LeaseFound ==
    /\ now = 0
    /\ ~lease.exists
    /\ \A p \in Procs : pc[p] = "probe"
    /\ lease' = ForeignLease
    /\ UNCHANGED <<now, pc, seen, wakeAt, renew, nextTick, ctrl, shutdown,
                   apiFailures>>
    /\ UNCHANGED notLeaseVars

\* time passes
Tick ==
    /\ now < MaxTime
    /\ now' = now + 1
    /\ UNCHANGED <<lease, pc, seen, wakeAt, renew, nextTick, ctrl, shutdown,
                   apiFailures>>
    /\ UNCHANGED notLeaseVars

\* main returns: the process ends and the runtime drops every task it spawned
Exited(p) ==
    /\ pc' = [pc EXCEPT ![p] = "exited"]
    /\ seen' = [seen EXCEPT ![p] = NoLease]
    /\ wakeAt' = [wakeAt EXCEPT ![p] = 0]
    /\ renew' = [renew EXCEPT ![p] = "none"]
    /\ nextTick' = [nextTick EXCEPT ![p] = 0]
    /\ ctrl' = [ctrl EXCEPT ![p] = NoCtrl]
    /\ shutdown' = [shutdown EXCEPT ![p] = FALSE]

\* let get_lease = lease_api.get_opt(lease_name).await?   (line 34) and the
\* branch on its result (lines 37-39, 65-77)
Probe(p) ==
    /\ pc[p] = "probe"
    /\ IF lease.exists
       THEN IF lease_expired(lease, now)
            THEN /\ pc' = [pc EXCEPT ![p] = "patching"]
                 /\ seen' = [seen EXCEPT ![p] = lease]
                 /\ UNCHANGED wakeAt
            ELSE /\ pc' = [pc EXCEPT ![p] = "sleeping"]
                 /\ wakeAt' = [wakeAt EXCEPT ![p] = now + lease.duration]
                 /\ UNCHANGED seen
       ELSE pc' = [pc EXCEPT ![p] = "creating"] /\ UNCHANGED <<wakeAt, seen>>
    /\ UNCHANGED <<now, lease, renew, nextTick, ctrl, shutdown, apiFailures>>
    /\ UNCHANGED notLeaseVars

\* a Kubernetes API call of acquire_or_create fails and `?` returns the error
\* to main, which returns it (controller.rs line 181)
AcquireApiError(p) ==
    /\ pc[p] \in {"probe", "patching", "creating"}
    /\ apiFailures < MaxApiFailures
    /\ apiFailures' = apiFailures + 1
    /\ Exited(p)
    /\ UNCHANGED <<now, lease>>
    /\ UNCHANGED notLeaseVars

\* tokio::time::sleep(Duration::from_secs(wait_time)).await; continue;
Wake(p) ==
    /\ pc[p] = "sleeping"
    /\ now >= wakeAt[p]
    /\ pc' = [pc EXCEPT ![p] = "probe"]
    /\ wakeAt' = [wakeAt EXCEPT ![p] = 0]
    /\ UNCHANGED <<now, lease, seen, renew, nextTick, ctrl, shutdown,
                   apiFailures>>
    /\ UNCHANGED notLeaseVars

\* renew_lease_duration_seconds: the leaseDurationSeconds of the lease that
\* create / patch returned, which both set to LEASE_DURATION_SECONDS (107-108)
RenewPeriod == LEASE_DURATION_SECONDS

\* acquire_or_create returns Ok: the renewal task is spawned with an interval
\* whose first tick is immediate (lines 102-114, 157-160)
Acquired(p) ==
    /\ pc' = [pc EXCEPT ![p] = "acquired"]
    /\ seen' = [seen EXCEPT ![p] = NoLease]
    /\ renew' = [renew EXCEPT ![p] = "loop"]
    /\ nextTick' = [nextTick EXCEPT ![p] = now]
    /\ UNCHANGED <<now, wakeAt, ctrl, shutdown, apiFailures>>

\* lease_api.patch(.., PatchParams::apply(..).force(), Patch::Apply(&lease))
\* (lines 57-64).  The body is the object that was read, resourceVersion
\* included, so the API server answers 409 when the lease changed since.
TakeOver(p) ==
    /\ pc[p] = "patching"
    /\ IF lease.exists /\ lease.rv = seen[p].rv
       THEN lease' = AcquiredLease(seen[p], p, now) /\ Acquired(p)
       ELSE Exited(p) /\ UNCHANGED <<now, lease, apiFailures>>
    /\ UNCHANGED notLeaseVars

\* lease_api.create(..).await?  (lines 79-98): 409 when the lease exists
Create(p) ==
    /\ pc[p] = "creating"
    /\ IF ~lease.exists
       THEN lease' = CreatedLease(p, now) /\ Acquired(p)
       ELSE Exited(p) /\ UNCHANGED <<now, lease, apiFailures>>
    /\ UNCHANGED notLeaseVars

\* the renewal task's loop body: interval.tick() fired, the merge patch of
\* renewTime succeeds (lines 116-137).  No resourceVersion, no holder check.
Renew(p) ==
    /\ renew[p] = "loop"
    /\ now >= nextTick[p]
    /\ lease.exists
    /\ lease' = RenewedLease(lease, now)
    /\ nextTick' = [nextTick EXCEPT ![p] = nextTick[p] + RenewPeriod]
    /\ UNCHANGED <<now, pc, seen, wakeAt, renew, ctrl, shutdown, apiFailures>>
    /\ UNCHANGED notLeaseVars

\* the renewal patch fails: the error is logged and the loop goes on (135-137)
RenewFail(p) ==
    /\ renew[p] = "loop"
    /\ now >= nextTick[p]
    /\ apiFailures < MaxApiFailures
    /\ apiFailures' = apiFailures + 1
    /\ nextTick' = [nextTick EXCEPT ![p] = nextTick[p] + RenewPeriod]
    /\ UNCHANGED <<now, lease, pc, seen, wakeAt, renew, ctrl, shutdown>>
    /\ UNCHANGED notLeaseVars

\* the task received the shutdown message of Lease::join, left the loop and
\* issues the release patch (lines 119-122, 140-154)
Release(p) ==
    /\ renew[p] = "loop"
    /\ pc[p] = "joining"
    /\ lease.exists
    /\ lease' = ReleasedLease(lease)
    /\ renew' = [renew EXCEPT ![p] = "released"]
    /\ nextTick' = [nextTick EXCEPT ![p] = 0]
    /\ UNCHANGED <<now, pc, seen, wakeAt, ctrl, shutdown, apiFailures>>
    /\ UNCHANGED notLeaseVars

\* the release patch fails: logged, the task ends all the same (152-154)
ReleaseFail(p) ==
    /\ renew[p] = "loop"
    /\ pc[p] = "joining"
    /\ apiFailures < MaxApiFailures
    /\ apiFailures' = apiFailures + 1
    /\ renew' = [renew EXCEPT ![p] = "released"]
    /\ nextTick' = [nextTick EXCEPT ![p] = 0]
    /\ UNCHANGED <<now, lease, pc, seen, wakeAt, ctrl, shutdown>>
    /\ UNCHANGED notLeaseVars

(***************************************************************************)
(* bin/controller.rs: main                                                 *)
(***************************************************************************)

\* shutdown_signal: SIGINT / SIGTERM arrives, the broadcast is sent (58-66)
Signal(p) ==
    /\ pc[p] # "exited"
    /\ ~shutdown[p]
    /\ shutdown' = [shutdown EXCEPT ![p] = TRUE]
    /\ UNCHANGED <<now, lease, pc, seen, wakeAt, renew, nextTick, ctrl,
                   apiFailures>>
    /\ UNCHANGED notLeaseVars

\* the select! around lease_fut: early exit when the signal is received while
\* the lease is still being acquired (lines 179-187)
EarlyExit(p) ==
    /\ pc[p] \in {"probe", "patching", "creating", "sleeping"}
    /\ shutdown[p]
    /\ Exited(p)
    /\ UNCHANGED <<now, lease, apiFailures>>
    /\ UNCHANGED notLeaseVars

\* the lease is acquired: read the CA bundle, spawn the watcher and the three
\* controllers (lines 188-293)
SpawnControllers(p) ==
    /\ pc[p] = "acquired"
    /\ pc' = [pc EXCEPT ![p] = "controllers"]
    /\ ctrl' = [ctrl EXCEPT ![p] = [c \in Ctrls |-> "running"]]
    /\ UNCHANGED <<now, lease, seen, wakeAt, renew, nextTick, shutdown,
                   apiFailures>>
    /\ UNCHANGED notLeaseVars

\* tokio::fs::read_to_string(&config.ca_bundle_path).await? fails (line 192),
\* or the process is killed: main ends without releasing the lease
Die(p) ==
    /\ pc[p] \in {"acquired", "controllers"}
    /\ Exited(p)
    /\ UNCHANGED <<now, lease, apiFailures>>
    /\ UNCHANGED notLeaseVars

\* graceful_shutdown_on: the controller's stream ends after the broadcast
CtrlStop(p, c) ==
    /\ ctrl[p][c] = "running"
    /\ shutdown[p]
    /\ ctrl' = [ctrl EXCEPT ![p][c] = "done"]
    /\ UNCHANGED <<now, lease, pc, seen, wakeAt, renew, nextTick, shutdown,
                   apiFailures>>
    /\ UNCHANGED notLeaseVars

\* the controller task panics (an unwrap in a reconciler): its JoinHandle
\* resolves to Err(JoinError)
CtrlPanic(p, c) ==
    /\ ctrl[p][c] = "running"
    /\ ctrl' = [ctrl EXCEPT ![p][c] = "panicked"]
    /\ UNCHANGED <<now, lease, pc, seen, wakeAt, renew, nextTick, shutdown,
                   apiFailures>>
    /\ UNCHANGED notLeaseVars

\* tokio::try_join!(vr, mr, cp): completes when the three handles resolved Ok,
\* or as soon as one of them resolves to an Err (lines 296-300)
TryJoinReady(cs) ==
    \/ \A c \in Ctrls : cs[c] = "done"
    \/ \E c \in Ctrls : cs[c] = "panicked"

\* try_join! returned; lease.join() sends the shutdown message to the renewal
\* task and awaits it (lines 301-305, Lease::join)
JoinLease(p) ==
    /\ pc[p] = "controllers"
    /\ TryJoinReady(ctrl[p])
    /\ pc' = [pc EXCEPT ![p] = "joining"]
    /\ UNCHANGED <<now, lease, seen, wakeAt, renew, nextTick, ctrl, shutdown,
                   apiFailures>>
    /\ UNCHANGED notLeaseVars

\* the renewal task has ended; res? and the return of main (306-311)
MainReturn(p) ==
    /\ pc[p] = "joining"
    /\ renew[p] = "released"
    /\ Exited(p)
    /\ UNCHANGED <<now, lease, apiFailures>>
    /\ UNCHANGED notLeaseVars

\* main from the spawn of the controllers to lease.join() taken as one step:
\* the controllers ran and try_join! returned (lines 188-305)
ControllersEnd(p) ==
    /\ pc[p] = "acquired"
    /\ pc' = [pc EXCEPT ![p] = "joining"]
    /\ UNCHANGED <<now, lease, seen, wakeAt, renew, nextTick, ctrl, shutdown,
                   apiFailures>>
    /\ UNCHANGED notLeaseVars

\* the shutdown signal arrives while the lease is being acquired and the
\* select! returns early (lines 179-187)
Interrupt(p) ==
    /\ pc[p] \in {"probe", "patching", "creating", "sleeping"}
    /\ Exited(p)
    /\ UNCHANGED <<now, lease, apiFailures>>
    /\ UNCHANGED notLeaseVars

(***************************************************************************)
(* reconcile/rule.rs, bin/controller.rs (reload_ca_bundle), filewatcher.rs *)
(***************************************************************************)

\* the two rule kinds, by the macro arm that serves them (validate / mutate)
Kinds == {"validate", "mutate"}
Names == {"a"}
Rules == Kinds \X Names
\* contents the CA bundle file can have
Bundles == {"B0", "B1"}
\* values of the part of a rule's spec that is copied into the webhook
\* (timeoutSeconds)
RuleSpecs == {10, 20}
\* how often the CA bundle file is written
MaxWrites == 1
\* how often a rule's spec is updated
MaxRuleEdits == 1
\* how many API calls of the reloader and the reconcilers may fail
MaxRuleFailures == 1

VALIDATINGRULE_OWNED_LABEL_KEY == "checkpoint.devsisters.com/validatingrule"
MUTATINGRULE_OWNED_LABEL_KEY == "checkpoint.devsisters.com/mutatingrule"
SHOULD_UPDATE_ANNOTATION_KEY == "checkpoint.devsisters.com/should-update"

\* $webhook_configuration_ty of the macro arm
ConfigKind(k) ==
    IF k = "validate" THEN "ValidatingWebhookConfiguration"
    ELSE "MutatingWebhookConfiguration"

\* $ty of the macro arm
WebhookTy(k) == IF k = "validate" THEN "validatingwebhook" ELSE "mutatingwebhook"

\* $owned_label_key of the macro arm
OwnedLabelKey(k) ==
    IF k = "validate" THEN VALIDATINGRULE_OWNED_LABEL_KEY
    ELSE MUTATINGRULE_OWNED_LABEL_KEY

\* the kind of the rule resource a reconciler serves
RuleKind(k) == IF k = "validate" THEN "ValidatingRule" ELSE "MutatingRule"

\* rule.controller_owner_ref(&()).unwrap()
controller_owner_ref(k, name) ==
    [kind |-> RuleKind(k), name |-> name, controller |-> TRUE]

\* fn webhook_client_config: format!("/{}/{}", path, rule_name) is the pair
\* <<path, rule_name>>
webhook_client_config(ca_bundle, path, rule_name) ==
    [caBundle |-> ca_bundle, path |-> <<path, rule_name>>]

\* a webhook_configuration whose macro arms share the service path of the
\* validate arm
webhook_configuration_one_path(k, name, oref, spec, ca_bundle) ==
    [kind |-> ConfigKind(k),
     name |-> name,
     ownerReferences |-> <<oref>>,
     labels |-> {<<OwnedLabelKey(k), name>>},
     annotations |-> {},
     webhooks |-> <<[name |-> <<name, WebhookTy(k), "checkpoint.devsisters.com">>,
                     timeoutSeconds |-> spec,
                     clientConfig |->
                         webhook_client_config(ca_bundle, "validate", name)]>>]

\* a webhook_configuration that carries the bundle the controller started
\* with
webhook_configuration_first_bundle(k, name, oref, spec, ca_bundle) ==
    [kind |-> ConfigKind(k),
     name |-> name,
     ownerReferences |-> <<oref>>,
     labels |-> {<<OwnedLabelKey(k), name>>},
     annotations |-> {},
     webhooks |-> <<[name |-> <<name, WebhookTy(k), "checkpoint.devsisters.com">>,
                     timeoutSeconds |-> spec,
                     clientConfig |-> webhook_client_config("B0", k, name)]>>]

\* macro_rules! webhook_configuration (@internal arm), given the bundle that
\* was read from the lock
webhook_configuration(k, name, oref, spec, ca_bundle) ==
    [kind |-> ConfigKind(k),
     name |-> name,
     ownerReferences |-> <<oref>>,
     labels |-> {<<OwnedLabelKey(k), name>>},
     annotations |-> {},
     webhooks |-> <<[name |-> <<name, WebhookTy(k), "checkpoint.devsisters.com">>,
                     timeoutSeconds |-> spec,
                     clientConfig |-> webhook_client_config(ca_bundle, k, name)]>>]

\* the stored objects of one kind and name
Find(store, kind, name) == {o \in store : o.kind = kind /\ o.name = name}

\* an apply under which the annotations of the stored object survive a body
\* that leaves them out
ApplyObjectKeepingAnnotations(store, body) ==
    LET old == Find(store, body.kind, body.name) IN
    (store \ old)
        \cup {[body EXCEPT !.annotations =
                   @ \cup UNION {o.annotations : o \in old}]}

\* Api::patch(name, PatchParams::apply(manager), Patch::Apply(body)) as the
\* API server executes it for the one field manager that writes these
\* objects: the object becomes the body (fields the manager applied before
\* and left out now are removed); an apply of an equal object changes nothing
ApplyObject(store, body) ==
    (store \ Find(store, body.kind, body.name)) \cup {body}

\* Controller::owns: the rules whose reconcile a change of object o schedules
Owners(o) ==
    {r \in Rules :
        /\ o.kind = ConfigKind(r[1])
        /\ \E i \in DOMAIN o.ownerReferences :
              /\ o.ownerReferences[i].kind = RuleKind(r[1])
              /\ o.ownerReferences[i].name = r[2]}

\* the watch events of a change of the store: every owner of a written
\* object is scheduled
Scheduled(q, old, new) ==
    [r \in Rules |-> q[r] \/ \E o \in new \ old : r \in Owners(o)]

NoRun == [busy |-> FALSE]
IdleReload == [pc |-> "idle", content |-> "none", todo |-> {}, stale |-> {}]

\* metadata.resourceVersion of the objects the reloader listed: a listed
\* copy is stale once the stored object was written after the list
Outdated(rl, old, new) ==
    [rl EXCEPT !.stale = @ \cup {o \in rl.todo :
                                    Find(new, o.kind, o.name)
                                        # Find(old, o.kind, o.name)}]

RuleInit ==
    /\ caFile = "B0"
    /\ writes = 0
    /\ events = 0
    /\ caBundle = "B0"
    /\ reload = IdleReload
    /\ wcs = {}
    /\ rules = [r \in Rules |-> 10]
    /\ queued = [r \in Rules |-> TRUE]
    /\ run = [r \in Rules |-> NoRun]
    /\ applied = [r \in Rules |-> "never"]
    /\ ruleEdits = 0
    /\ ruleFailures = 0

\* the CA bundle file is written; notify sends an event into the channel
\* (sender.blocking_send, filewatcher.rs lines 37-39)
WriteFile(b) ==
    /\ writes < MaxWrites
    /\ caFile' = b
    /\ writes' = writes + 1
    /\ events' = events + 1
    /\ UNCHANGED <<caBundle, reload, wcs, rules, queued, run, applied,
                   ruleEdits, ruleFailures>>
    /\ UNCHANGED notRuleVars

\* a user updates the spec of a rule; the controller's watch schedules it
UpdateRule(r, s) ==
    /\ ruleEdits < MaxRuleEdits
    /\ s # rules[r]
    /\ rules' = [rules EXCEPT ![r] = s]
    /\ ruleEdits' = ruleEdits + 1
    /\ queued' = [queued EXCEPT ![r] = TRUE]
    /\ UNCHANGED <<caFile, writes, events, caBundle, reload, wcs, run, applied,
                   ruleFailures>>
    /\ UNCHANGED notRuleVars

\* the watcher loop receives the next event and calls the handler, which
\* reads the file (filewatcher.rs 45-55, controller.rs 75-76); the loop
\* awaits the handler before it receives again
ReloadRead ==
    /\ reload.pc = "idle"
    /\ events > 0
    /\ events' = events - 1
    /\ reload' = [IdleReload EXCEPT !.pc = "read", !.content = caFile]
    /\ UNCHANGED <<caFile, writes, caBundle, wcs, rules, queued, run, applied,
                   ruleEdits, ruleFailures>>
    /\ UNCHANGED notRuleVars

\* a reload that does not compare the content with the stored bundle
ReloadSwapAlways ==
    /\ reload.pc = "read"
    /\ caBundle' = reload.content
    /\ reload' = [reload EXCEPT !.pc = "list_validate"]
    /\ UNCHANGED <<caFile, writes, events, wcs, rules, queued, run, applied,
                   ruleEdits, ruleFailures>>
    /\ UNCHANGED notRuleVars

\* if ca_bundle == *current_ca_bundle { return Ok(()) }, else
\* *ca_bundle_lock_write = ca_bundle.clone()  (lines 78-89)
ReloadSwap ==
    /\ reload.pc = "read"
    /\ IF reload.content = caBundle
       THEN reload' = IdleReload /\ UNCHANGED caBundle
       ELSE /\ caBundle' = reload.content
            /\ reload' = [reload EXCEPT !.pc = "list_validate"]
    /\ UNCHANGED <<caFile, writes, events, wcs, rules, queued, run, applied,
                   ruleEdits, ruleFailures>>
    /\ UNCHANGED notRuleVars

\* api.list(&ListParams::default().labels(KEY)): the objects that carry the
\* ownership label of kind k
Listed(store, k) ==
    {o \in store : o.kind = ConfigKind(k)
                   /\ \E l \in o.labels : l[1] = OwnedLabelKey(k)}

\* vwc_api.list(..).await?.items, then mwc_api.list(..).await?.items (91-98)
ReloadList ==
    /\ reload.pc \in {"list_validate", "list_mutate"}
    /\ LET k == IF reload.pc = "list_validate" THEN "validate" ELSE "mutate" IN
       reload' = [reload EXCEPT
                    !.pc = IF k = "validate" THEN "list_mutate" ELSE "patch",
                    !.todo = @ \cup Listed(wcs, k)]
    /\ UNCHANGED <<caFile, writes, events, caBundle, wcs, rules, queued, run,
                   applied, ruleEdits, ruleFailures>>
    /\ UNCHANGED notRuleVars

\* annotations.insert(SHOULD_UPDATE_ANNOTATION_KEY, "true")  (lines 106-110)
Annotated(o) ==
    [o EXCEPT !.annotations = @ \cup {<<SHOULD_UPDATE_ANNOTATION_KEY, "true">>}]

\* one of the applies of the patch! futures (lines 111-120).  The body is the
\* listed object, its resourceVersion included: the API server answers 409
\* when the object changed since the list, try_collect returns the error and
\* the futures not yet run are dropped (lines 122-129)
ReloadPatch(o) ==
    /\ reload.pc = "patch"
    /\ o \in reload.todo
    /\ IF o \notin reload.stale
       THEN /\ wcs' = ApplyObject(wcs, Annotated(o))
            /\ queued' = Scheduled(queued, wcs, wcs')
            /\ reload' = [reload EXCEPT !.todo = @ \ {o}]
       ELSE /\ reload' = IdleReload
            /\ UNCHANGED <<wcs, queued>>
    /\ UNCHANGED <<caFile, writes, events, caBundle, rules, run, applied,
                   ruleEdits, ruleFailures>>
    /\ UNCHANGED notRuleVars

\* try_join(vwcs_patch, mwcs_patch).await? returned Ok; the handler returns
ReloadDone ==
    /\ reload.pc = "patch"
    /\ reload.todo = {}
    /\ reload' = IdleReload
    /\ UNCHANGED <<caFile, writes, events, caBundle, wcs, rules, queued, run,
                   applied, ruleEdits, ruleFailures>>
    /\ UNCHANGED notRuleVars

\* a list or an apply of reload_ca_bundle fails with an API error: `?`
\* returns it, the handler logs it (lines 93, 97, 129, 224-226)
ReloadApiError ==
    /\ \/ reload.pc \in {"list_validate", "list_mutate"}
       \/ reload.pc = "patch" /\ reload.todo # {}
    /\ ruleFailures < MaxRuleFailures
    /\ ruleFailures' = ruleFailures + 1
    /\ reload' = IdleReload
    /\ UNCHANGED <<caFile, writes, events, caBundle, wcs, rules, queued, run,
                   applied, ruleEdits>>
    /\ UNCHANGED notRuleVars

\* reconcile_validatingrule / reconcile_mutatingrule up to the patch: the
\* controller hands the rule over, the macro reads the CA bundle under the
\* read lock and builds the object (rule.rs 146-174, 190-218)
ReconcileStart(r) ==
    /\ queued[r]
    /\ ~run[r].busy
    /\ queued' = [queued EXCEPT ![r] = FALSE]
    /\ run' = [run EXCEPT ![r] =
                 [busy |-> TRUE,
                  body |-> webhook_configuration(
                               r[1], r[2], controller_owner_ref(r[1], r[2]),
                               rules[r], caBundle)]]
    /\ UNCHANGED <<caFile, writes, events, caBundle, reload, wcs, rules,
                   applied, ruleEdits, ruleFailures>>
    /\ UNCHANGED notRuleVars

\* the apply patch of the reconciler succeeds and it returns
\* Action::await_change() (rule.rs 177-186, 221-230)
ReconcileApply(r) ==
    /\ run[r].busy
    /\ wcs' = ApplyObject(wcs, run[r].body)
    /\ queued' = Scheduled(queued, wcs, wcs')
    /\ run' = [run EXCEPT ![r] = NoRun]
    /\ reload' = Outdated(reload, wcs, wcs')
    /\ applied' = [applied EXCEPT ![r] = IF wcs' = wcs THEN "same" ELSE "changed"]
    /\ UNCHANGED <<caFile, writes, events, caBundle, rules, ruleEdits,
                   ruleFailures>>
    /\ UNCHANGED notRuleVars

\* the apply patch fails: map_err, and error_policy requeues the rule
\* (rule.rs 184, 228; reconcile.rs 215-219)
ReconcileFail(r) ==
    /\ run[r].busy
    /\ ruleFailures < MaxRuleFailures
    /\ ruleFailures' = ruleFailures + 1
    /\ run' = [run EXCEPT ![r] = NoRun]
    /\ queued' = [queued EXCEPT ![r] = TRUE]
    /\ UNCHANGED <<caFile, writes, events, caBundle, reload, wcs, rules,
                   applied, ruleEdits>>
    /\ UNCHANGED notRuleVars

RuleNext ==
    \/ \E b \in Bundles : WriteFile(b)
    \/ \E r \in Rules, s \in RuleSpecs : UpdateRule(r, s)
    \/ ReloadRead \/ ReloadSwap \/ ReloadList
    \/ \E o \in reload.todo : ReloadPatch(o)
    \/ ReloadDone \/ ReloadApiError
    \/ \E r \in Rules : ReconcileStart(r) \/ ReconcileApply(r) \/ ReconcileFail(r)

(***************************************************************************)
(* handler/mod.rs, handler/lua/mod.rs, handler/lua/helper.rs,              *)
(* handler/js/helper.rs: one admission request at a time                   *)
(***************************************************************************)

\* how many helper calls (kubeGet / kubeList) a script makes in one run
MaxCalls == 2
\* how many seconds a script is followed
MaxEvalSeconds == 2
\* spec.timeoutSeconds of a rule (NoTime: not given)
TimeoutSeconds == {NoTime, 1}
\* what a script can return as deny reason, and as JSON-Patch operations
DenyReasons == {Null, "", "denied"}
NoPatch == [present |-> FALSE]
Patches ==
    {NoPatch} \cup {[present |-> TRUE, operations |-> ops] :
                       ops \in {<<>>, <<"add">>}}

Routes == {"validate", "mutate"}
Uids == {"u1", "u2"}
Engines == {"lua", "js"}
\* the namespace/name of a rule's spec.serviceAccount
ServiceAccounts == {"sa"}

\* review.request of an AdmissionReview: Option<AdmissionRequest>
NoRequest == [present |-> FALSE]
\* the bodies a client can post: what does not deserialize as an
\* AdmissionReview, a review without request, a review with a request
Bodies ==
    {[json |-> FALSE]}
        \cup {[json |-> TRUE, request |-> NoRequest]}
        \cup {[json |-> TRUE, request |-> [present |-> TRUE, uid |-> u]] :
                u \in Uids}

NoResponse == [type |-> "none"]
\* impl IntoResponse: a status code and the error text (lines 68-76), and
\* the rejection of the Json extractor
HttpError(status) == [type |-> "http", status |-> status]

\* an into_response that answers every Error alike
into_response_same_status(error) ==
    [type |-> "http", status |-> 500, message |-> error]

\* impl IntoResponse for Error (lines 68-76): 404 for RuleNotFound, 500 for
\* every other Error, with the error's text as body
into_response(error) ==
    [type |-> "http",
     status |-> IF error = "RuleNotFound" THEN 404 ELSE 500,
     message |-> error]

\* TryFrom<AdmissionReview<T>> for AdmissionRequest<T> (lines 90, 155):
\* fails exactly when the review has no request
try_into(body) ==
    IF body.request.present THEN [ok |-> TRUE, req |-> body.request]
    ELSE [ok |-> FALSE, error |-> "request missing in AdmissionReview"]

\* an `invalid` that lets the request through
invalid_allowing(reason) ==
    [type |-> "review", uid |-> "", allowed |-> TRUE,
     reason |-> "InvalidRequest", message |-> reason, patch |-> NoPatch]

\* AdmissionResponse::invalid(error.to_string()) (lines 95, 160): built from
\* the error text alone, the uid is String::default()
invalid(reason) ==
    [type |-> "review", uid |-> "", allowed |-> FALSE,
     reason |-> "InvalidRequest", message |-> reason, patch |-> NoPatch]

\* a conversion that leaves the uid of the response at its default
from_request_default_uid(req) ==
    [type |-> "review", uid |-> "", allowed |-> TRUE,
     reason |-> "", message |-> "", patch |-> NoPatch]

\* let resp: AdmissionResponse = req.into()  (lines 136, 211)
from_request(req) ==
    [type |-> "review", uid |-> req.uid, allowed |-> TRUE,
     reason |-> "", message |-> "", patch |-> NoPatch]

\* resp.deny(deny_reason)  (lines 139-143, 214-218)
deny(resp, deny_reason) ==
    [resp EXCEPT !.allowed = FALSE, !.message = deny_reason]

\* resp.with_patch(Patch(patch.0))  (lines 221-226): the operations are
\* serialized and attached as a JSON patch, whatever their number
with_patch(resp, patch) ==
    [resp EXCEPT !.patch = [present |-> TRUE, patchType |-> "JSONPatch",
                            operations |-> patch]]

\* the response of validate / mutate for a script output (lines 135-145,
\* 210-228); validate reads no patch from the script
BuildResponse(route, req, deny_reason, patch) ==
    LET r0 == from_request(req)
        r1 == IF deny_reason # Null THEN deny(r0, deny_reason) ELSE r0
    IN IF route = "mutate" /\ patch.present
       THEN with_patch(r1, patch.operations) ELSE r1

\* a helper that falls back to the server's own client
extract_kube_client_or_own(client) ==
    IF client = Null THEN [ok |-> TRUE, client |-> "server"]
    ELSE [ok |-> TRUE, client |-> client]

\* fn extract_kube_client_from_lua_ctx (handler/lua/mod.rs 146-154)
extract_kube_client_from_lua_ctx(client) ==
    IF client = Null
    THEN [ok |-> FALSE, error |-> "ServiceAccountInfoNotProvided"]
    ELSE [ok |-> TRUE, client |-> client]

\* fn prepare_kube_client of the JS helpers (handler/js/helper.rs 20-78):
\* fails first when there is no serviceAccount, else requests a token
prepare_kube_client(serviceaccount_info) ==
    IF serviceaccount_info = Null
    THEN [ok |-> FALSE, error |-> "ServiceAccountInfoNotProvided",
          tokenRequest |-> FALSE]
    ELSE [ok |-> TRUE, client |-> serviceaccount_info, tokenRequest |-> TRUE]

\* kube_get / kube_list (handler/lua/helper.rs 91-124, 154-209) and
\* ops_kube_get / ops_kube_list (handler/js/helper.rs 93-129, 162-226): the
\* argument is deserialized first, then the client is obtained, then the
\* cluster is read with it.  The result, and what the call did on the way.
HelperCall(engine, serviceaccount_info, client, argOk, apiOk) ==
    LET cl == IF engine = "lua" THEN extract_kube_client_from_lua_ctx(client)
              ELSE prepare_kube_client(serviceaccount_info)
    IN IF ~argOk
       THEN [result |-> "ArgumentError", tokenRequest |-> FALSE, read |-> {}]
       ELSE IF ~cl.ok
       THEN [result |-> cl.error, tokenRequest |-> FALSE, read |-> {}]
       ELSE [result |-> IF apiOk THEN "ok" ELSE "KubernetesError",
             tokenRequest |-> engine = "js" /\ cl.tokenRequest,
             read |-> {cl.client}]

NoCall == [fn |-> "none"]
NoRule == [found |-> FALSE]

AdmInit ==
    /\ admPc = "idle"
    /\ admReq = [route |-> "none"]
    /\ admRule = NoRule
    /\ admClient = Null
    /\ admCalls = 0
    /\ lastCall = NoCall
    /\ tokenRequests = 0
    /\ helperReads = {}
    /\ lookedUp = FALSE
    /\ evaluated = FALSE
    /\ response = NoResponse
    /\ evalElapsed = 0
    /\ admError = Null

\* a POST to /validate/:rule_name or /mutate/:rule_name arrives (17-23)
AdmReceive(route, body, engine) ==
    /\ admPc \in {"idle", "done"}
    /\ admPc' = "received"
    /\ admReq' = [route |-> route, body |-> body, engine |-> engine]
    /\ admRule' = NoRule
    /\ admClient' = Null
    /\ admCalls' = 0
    /\ lastCall' = NoCall
    /\ tokenRequests' = 0
    /\ helperReads' = {}
    /\ lookedUp' = FALSE
    /\ evaluated' = FALSE
    /\ response' = NoResponse
    /\ evalElapsed' = 0
    /\ admError' = Null
    /\ UNCHANGED notAdmVars

\* extract::Json(req): the body is no AdmissionReview, the extractor rejects
\* the request before the handler's body runs (lines 86, 151)
AdmReject ==
    /\ admPc = "received"
    /\ ~admReq.body.json
    /\ response' = HttpError(422)
    /\ admPc' = "done"
    /\ UNCHANGED <<admReq, admRule, admClient, admCalls, lastCall,
                   tokenRequests, helperReads, lookedUp, evaluated>>
    /\ UNCHANGED <<evalElapsed, admError>>
    /\ UNCHANGED notAdmVars

\* req.try_into(): Err => reply AdmissionResponse::invalid (lines 90-98,
\* 155-163); Ok => go on to validate / mutate
AdmConvert ==
    /\ admPc = "received"
    /\ admReq.body.json
    /\ LET c == try_into(admReq.body) IN
       IF c.ok
       THEN admPc' = "lookup" /\ UNCHANGED response
       ELSE admPc' = "done" /\ response' = invalid(c.error)
    /\ UNCHANGED <<admReq, admRule, admClient, admCalls, lastCall,
                   tokenRequests, helperReads, lookedUp, evaluated>>
    /\ UNCHANGED <<evalElapsed, admError>>
    /\ UNCHANGED notAdmVars

\* vr_api.get_opt(rule_name).await.map_err(Error::Kubernetes)?
\*     .ok_or(Error::RuleNotFound)?   (lines 117-124, 192-199)
AdmLookup(outcome, sa, timeout_seconds) ==
    /\ admPc = "lookup"
    /\ lookedUp' = TRUE
    /\ CASE outcome = "error" ->
              /\ admError' = "Kubernetes"
              /\ response' = into_response("Kubernetes")
              /\ admPc' = "done"
              /\ UNCHANGED admRule
         [] outcome = "absent" ->
              /\ admError' = "RuleNotFound"
              /\ response' = into_response("RuleNotFound")
              /\ admPc' = "done"
              /\ UNCHANGED admRule
         [] outcome = "found" ->
              /\ UNCHANGED admError
              /\ admRule' = [found |-> TRUE, serviceAccount |-> sa,
                              timeoutSeconds |-> timeout_seconds]
              /\ admPc' = "prepare"
              /\ UNCHANGED response
    /\ UNCHANGED <<admReq, admClient, admCalls, lastCall, tokenRequests,
                   helperReads, evaluated>>
    /\ UNCHANGED evalElapsed
    /\ UNCHANGED notAdmVars

\* prepare_lua_ctx (handler/lua/mod.rs 121-144): a restricted client, made
\* with a token request, only when the rule names a serviceAccount; the JS
\* host only stores the serviceAccount in the script's context
AdmPrepare(tokenOk) ==
    /\ admPc = "prepare"
    /\ evaluated' = TRUE
    /\ IF admReq.engine = "lua" /\ admRule.serviceAccount # Null
       THEN /\ tokenRequests' = tokenRequests + 1
            /\ IF tokenOk
               THEN /\ admClient' = admRule.serviceAccount
                    /\ admPc' = "eval"
                    /\ UNCHANGED response
                    /\ UNCHANGED admError
               ELSE /\ admError' = "Kubernetes"
                    /\ response' = into_response("Kubernetes")
                    /\ admPc' = "done"
                    /\ UNCHANGED admClient
       ELSE /\ admPc' = "eval"
            /\ UNCHANGED <<admClient, tokenRequests, response, admError>>
    /\ UNCHANGED <<admReq, admRule, admCalls, lastCall, helperReads, lookedUp>>
    /\ UNCHANGED evalElapsed
    /\ UNCHANGED notAdmVars

\* the script calls kubeGet or kubeList
AdmHelperCall(fn, argOk, apiOk) ==
    /\ admPc = "eval"
    /\ admCalls < MaxCalls
    /\ admCalls' = admCalls + 1
    /\ LET c == HelperCall(admReq.engine, admRule.serviceAccount, admClient,
                           argOk, apiOk) IN
       /\ lastCall' = [fn |-> fn, argOk |-> argOk, result |-> c.result]
       /\ tokenRequests' = tokenRequests + (IF c.tokenRequest THEN 1 ELSE 0)
       /\ helperReads' = helperReads \cup c.read
    /\ UNCHANGED <<admPc, admReq, admRule, admClient, lookedUp, evaluated,
                   response>>
    /\ UNCHANGED <<evalElapsed, admError>>
    /\ UNCHANGED notAdmVars

\* a second passes while the script runs: the thread stays in call_async /
\* run_event_loop and the handler in rx.await (handler/lua/mod.rs 55-58, 67;
\* handler/js.rs 48-54, 95)
AdmEvalTick ==
    /\ admPc = "eval"
    /\ evalElapsed < MaxEvalSeconds
    /\ evalElapsed' = evalElapsed + 1
    /\ UNCHANGED <<admPc, admReq, admRule, admClient, admCalls, lastCall,
                   tokenRequests, helperReads, lookedUp, evaluated, response,
                   admError>>
    /\ UNCHANGED notAdmVars

\* the script fails (an error of its own or of a helper that it does not
\* catch): Error::LuaEval, answered with status 500 (lines 61, 72, 133, 208)
AdmScriptError ==
    /\ admPc = "eval"
    /\ admError' = "LuaEval"
    /\ response' = into_response("LuaEval")
    /\ admPc' = "done"
    /\ UNCHANGED <<admReq, admRule, admClient, admCalls, lastCall,
                   tokenRequests, helperReads, lookedUp, evaluated>>
    /\ UNCHANGED evalElapsed
    /\ UNCHANGED notAdmVars

\* the script returns its output and validate / mutate build the response
\* (lines 135-145, 210-228, 107, 172)
AdmRespond(deny_reason, patch, serializeOk) ==
    /\ admPc = "eval"
    /\ IF admReq.route = "mutate" /\ patch.present /\ ~serializeOk
       THEN /\ admError' = "SerializePatch"
            /\ response' = into_response("SerializePatch")
       ELSE /\ response' = BuildResponse(admReq.route, admReq.body.request,
                                         deny_reason, patch)
            /\ UNCHANGED admError
    /\ admPc' = "done"
    /\ UNCHANGED <<admReq, admRule, admClient, admCalls, lastCall,
                   tokenRequests, helperReads, lookedUp, evaluated>>
    /\ UNCHANGED evalElapsed
    /\ UNCHANGED notAdmVars

AdmissionNext ==
    \/ \E route \in Routes, body \in Bodies, engine \in Engines :
          AdmReceive(route, body, engine)
    \/ AdmReject
    \/ AdmConvert
    \/ \E outcome \in {"error", "absent", "found"},
          sa \in ServiceAccounts \cup {Null},
          timeout_seconds \in TimeoutSeconds :
          AdmLookup(outcome, sa, timeout_seconds)
    \/ \E tokenOk \in BOOLEAN : AdmPrepare(tokenOk)
    \/ \E fn \in {"kubeGet", "kubeList"}, argOk \in BOOLEAN, apiOk \in BOOLEAN :
          AdmHelperCall(fn, argOk, apiOk)
    \/ AdmEvalTick
    \/ AdmScriptError
    \/ \E deny_reason \in DenyReasons, patch \in Patches,
          serializeOk \in BOOLEAN :
          AdmRespond(deny_reason, patch, serializeOk)

(***************************************************************************)
(* reconcile/policy.rs: the CronPolicy reconciler and its RBAC objects     *)
(***************************************************************************)

\* how many resources a policy's spec lists
MaxResources == 2
\* how often the policy's spec is updated
MaxPolicyEdits == 2
\* how many applies of the policy reconciler may fail
MaxPolicyFailures == 1

\* the width with which usize arithmetic on word lengths is modelled
UsizeBits == 16
\* Option<String> of spec.resources[].plural
NoPlural == [some |-> FALSE]

\* the name of the CronPolicy and its spec.namespace
PolicyName == "cp"
PolicyNamespace == "default"
\* a kind as its characters, and the namespaces and names a resource of the
\* spec can give (Null: not given)
PolicyKinds == {<<"P", "o", "d">>}
TargetNamespaces == {Null, "a", "b"}
TargetNames == {Null, "x"}
PolicyResources ==
    [group : {""}, kind : PolicyKinds, plural : {NoPlural},
     namespace : TargetNamespaces, name : TargetNames]
PolicySpecs ==
    {rs \in SUBSET PolicyResources : Cardinality(rs) <= MaxResources}

\* char::to_ascii_lowercase for the letters of the kinds
Lower(c) ==
    CASE c = "P" -> "p" [] c = "C" -> "c" [] c = "D" -> "d"
      [] c = "S" -> "s" [] c = "Q" -> "q" [] c = "Y" -> "y"
      [] OTHER -> c
to_ascii_lowercase(word) == [i \in DOMAIN word |-> Lower(word[i])]

\* str::ends_with
EndsWith(word, suffix) ==
    /\ Len(word) >= Len(suffix)
    /\ SubSeq(word, Len(word) - Len(suffix) + 1, Len(word)) = suffix

\* the first rule of to_plural (lines 161-168)
TakesEs(word) ==
    \/ EndsWith(word, <<"s">>) \/ EndsWith(word, <<"x">>)
    \/ EndsWith(word, <<"z">>) \/ EndsWith(word, <<"c", "h">>)
    \/ EndsWith(word, <<"s", "h">>)

\* `word.len() - 2` (line 173) is evaluated on a word of fewer than two
\* characters: a panic in a build with overflow checks
to_plural_overflows(word) ==
    ~TakesEs(word) /\ EndsWith(word, <<"y">>) /\ Len(word) - 2 < 0

\* fn to_plural (lines 159-185) where `word.len() - 2` does not panic: the
\* subtraction wraps (usize, modelled with UsizeBits bits) and chars().nth
\* of an index past the end is None
to_plural(word) ==
    LET n == (Len(word) - 2) % (2 ^ UsizeBits) IN
    IF TakesEs(word)
    THEN word \o <<"e", "s">>
    ELSE IF /\ EndsWith(word, <<"y">>)
            /\ n + 1 \in DOMAIN word
            /\ word[n + 1] \notin {"a", "e", "i", "o", "u"}
    THEN SubSeq(word, 1, Len(word) - 1) \o <<"i", "e", "s">>
    ELSE word \o <<"s">>

\* the one group find_group_version_pairs_by_kind finds for a kind whose
\* resource gives no group (make_role_rules, lines 196-211)
DiscoveredGroup == "g"

\* the PolicyRule of one resource (make_role_rules, lines 195-227)
PolicyRule(resource) ==
    [apiGroup |-> IF resource.group # Null THEN resource.group
                  ELSE DiscoveredGroup,
     resource |-> IF resource.plural.some THEN resource.plural.value
                  ELSE to_plural(to_ascii_lowercase(resource.kind)),
     verb |-> IF resource.name # Null THEN "get" ELSE "list",
     resourceName |-> resource.name]

\* fn make_role_rules (lines 187-231), the group of every resource given
make_role_rules(resources) == {PolicyRule(r) : r \in resources}

\* fn make_serviceaccount (lines 141-152)
make_serviceaccount(name, namespace, oref) ==
    [kind |-> "ServiceAccount", namespace |-> namespace, name |-> name,
     ownerReferences |-> <<oref>>]

\* fn make_cronjob (lines 64-139)
make_cronjob(cp_name, namespace, oref) ==
    [kind |-> "CronJob", namespace |-> namespace, name |-> cp_name,
     ownerReferences |-> <<oref>>, serviceAccountName |-> cp_name]

\* the subject of a binding: the checker's ServiceAccount
Subject(name, namespace) ==
    [kind |-> "ServiceAccount", name |-> name, namespace |-> namespace]

\* fn make_clusterrole (lines 233-248)
make_clusterrole(name, oref, resources) ==
    [kind |-> "ClusterRole", namespace |-> Null, name |-> name,
     ownerReferences |-> <<oref>>,
     rules |-> make_role_rules(resources)]

\* fn make_clusterrolebinding (lines 250-276)
make_clusterrolebinding(name, oref, serviceaccount_namespace) ==
    [kind |-> "ClusterRoleBinding", namespace |-> Null, name |-> name,
     ownerReferences |-> <<oref>>,
     roleRef |-> [kind |-> "ClusterRole", name |-> name],
     subjects |-> {Subject(name, serviceaccount_namespace)}]

\* fn make_role (lines 278-295)
make_role(name, oref, target_namespace, resources) ==
    [kind |-> "Role", namespace |-> target_namespace, name |-> name,
     ownerReferences |-> <<oref>>,
     rules |-> make_role_rules(resources)]

\* fn make_rolebinding (lines 297-324)
make_rolebinding(name, oref, target_namespace, serviceaccount_namespace) ==
    [kind |-> "RoleBinding", namespace |-> target_namespace, name |-> name,
     ownerReferences |-> <<oref>>,
     roleRef |-> [kind |-> "Role", name |-> name],
     subjects |-> {Subject(name, serviceaccount_namespace)}]

\* a make_roles_and_clusterroles that gives every Role the rules of all the
\* namespaced resources
make_roles_and_clusterroles_unpartitioned(cp_name, cronjob_namespace, oref, resources) ==
    LET namespaces == {r.namespace : r \in resources} \ {Null}
        global_resources == {r \in resources : r.namespace = Null}
    IN [roles |->
          [ns \in namespaces |->
              <<make_role(cp_name, oref, ns,
                          {r \in resources : r.namespace # Null}),
                make_rolebinding(cp_name, oref, ns, cronjob_namespace)>>],
        clusterrole |->
          IF global_resources # {}
          THEN <<make_clusterrole(cp_name, oref, global_resources),
                 make_clusterrolebinding(cp_name, oref, cronjob_namespace)>>
          ELSE <<>>]

\* fn make_roles_and_clusterroles (lines 331-388): a Role and a RoleBinding
\* for each namespace the resources name, a ClusterRole and a
\* ClusterRoleBinding when some resource names none
make_roles_and_clusterroles(cp_name, cronjob_namespace, oref, resources) ==
    LET namespaces == {r.namespace : r \in resources} \ {Null}
        global_resources == {r \in resources : r.namespace = Null}
    IN [roles |->
          [ns \in namespaces |->
              <<make_role(cp_name, oref, ns,
                          {r \in resources : r.namespace = ns}),
                make_rolebinding(cp_name, oref, ns, cronjob_namespace)>>],
        clusterrole |->
          IF global_resources # {}
          THEN <<make_clusterrole(cp_name, oref, global_resources),
                 make_clusterrolebinding(cp_name, oref, cronjob_namespace)>>
          ELSE <<>>]

\* cp.controller_owner_ref(&()) (line 398)
policy_owner_ref(name) ==
    [kind |-> "CronPolicy", name |-> name, controller |-> TRUE]

\* the orders in which try_collect can hand over the elements of a set
Orders(S) ==
    {f \in [1..Cardinality(S) -> S] : \A i, j \in DOMAIN f : i # j => f[i] # f[j]}

\* the concatenation of a sequence of sequences
RECURSIVE Concat(_)
Concat(ss) == IF ss = <<>> THEN <<>> ELSE Head(ss) \o Concat(Tail(ss))

\* the objects reconcile_cronpolicy applies, in its order (lines 409-455):
\* the ServiceAccount, each Role with its RoleBinding, the ClusterRole with
\* its ClusterRoleBinding, the CronJob
Applies(resources, order) ==
    LET oref == policy_owner_ref(PolicyName)
        made == make_roles_and_clusterroles(PolicyName, PolicyNamespace,
                                            oref, resources)
    IN <<make_serviceaccount(PolicyName, PolicyNamespace, oref)>>
         \o Concat([i \in DOMAIN order |-> made.roles[order[i]]])
         \o made.clusterrole
         \o <<make_cronjob(PolicyName, PolicyNamespace, oref)>>

\* Api::patch(.., Patch::Apply(obj)) on a namespaced or cluster-wide API
ApplyNamespaced(store, obj) ==
    {o \in store : ~(/\ o.kind = obj.kind
                     /\ o.namespace = obj.namespace
                     /\ o.name = obj.name)} \cup {obj}

IdlePolicy == [busy |-> FALSE]
NeverReconciled == [ok |-> FALSE]

PolicyInit ==
    /\ polSpec = {}
    /\ polQueued = TRUE
    /\ polRun = IdlePolicy
    /\ objects = {}
    /\ polReconciled = NeverReconciled
    /\ polEdits = 0
    /\ polFailures = 0

\* a user updates spec.resources of the CronPolicy; the watch schedules it
PolicyUpdate(resources) ==
    /\ polEdits < MaxPolicyEdits
    /\ resources # polSpec
    /\ polSpec' = resources
    /\ polEdits' = polEdits + 1
    /\ polQueued' = TRUE
    /\ UNCHANGED <<polRun, objects, polReconciled, polFailures>>
    /\ UNCHANGED notPolicyVars

\* reconcile_cronpolicy is called with the policy as read and builds the
\* objects (lines 390-417)
PolicyStart(order) ==
    /\ polQueued
    /\ ~polRun.busy
    /\ polQueued' = FALSE
    /\ polRun' = [busy |-> TRUE, spec |-> polSpec,
                  todo |-> Applies(polSpec, order)]
    /\ UNCHANGED <<polSpec, objects, polReconciled, polEdits, polFailures>>
    /\ UNCHANGED notPolicyVars

\* the next apply patch succeeds (lines 404-455); the controller owns the
\* object, so a change of it schedules the policy again
PolicyApply ==
    /\ polRun.busy
    /\ polRun.todo # <<>>
    /\ objects' = ApplyNamespaced(objects, Head(polRun.todo))
    /\ polQueued' = (polQueued \/ objects' # objects)
    /\ polRun' = [polRun EXCEPT !.todo = Tail(@)]
    /\ UNCHANGED <<polSpec, polReconciled, polEdits, polFailures>>
    /\ UNCHANGED notPolicyVars

\* the next apply patch fails: map_err, `?`, and error_policy requeues
PolicyApplyFail ==
    /\ polRun.busy
    /\ polRun.todo # <<>>
    /\ polFailures < MaxPolicyFailures
    /\ polFailures' = polFailures + 1
    /\ polRun' = IdlePolicy
    /\ polQueued' = TRUE
    /\ UNCHANGED <<polSpec, objects, polReconciled, polEdits>>
    /\ UNCHANGED notPolicyVars

\* Ok(Action::await_change())  (line 457)
PolicyDone ==
    /\ polRun.busy
    /\ polRun.todo = <<>>
    /\ polReconciled' = [ok |-> TRUE, spec |-> polRun.spec]
    /\ polRun' = IdlePolicy
    /\ UNCHANGED <<polSpec, polQueued, objects, polEdits, polFailures>>
    /\ UNCHANGED notPolicyVars

PolicyNext ==
    \/ \E resources \in PolicySpecs : PolicyUpdate(resources)
    \/ \E order \in Orders({r.namespace : r \in polSpec} \ {Null}) :
          PolicyStart(order)
    \/ PolicyApply \/ PolicyApplyFail \/ PolicyDone

(***************************************************************************)
(* handler/lua/mod.rs, handler/js.rs: concurrent script evaluations        *)
(***************************************************************************)

\* the admission requests that are handled concurrently
Reqs == {"q1", "q2"}

NoEval == [present |-> FALSE]
NoResult == [kind |-> "none"]
\* Result<T, Error> of an evaluation
OkResult(output) == [kind |-> "ok", output |-> output]
ErrResult(error) == [kind |-> "error", error |-> error]

\* a pool that hands out the sandbox already in use
shared_sandbox(all) == IF all = <<>> THEN 1 ELSE Len(all)

\* Lua::new() in crate::lua::prepare_lua_ctx and JsRuntime::new(options) in
\* prepare_js_runtime: every call makes a new sandbox
new_sandbox(all) == Len(all) + 1

\* the sandboxes with number `sb` made or reset: empty globals, no output
WithSandbox(all, sb) ==
    IF sb > Len(all) THEN Append(all, [request |-> Null, output |-> Null])
    ELSE [all EXCEPT ![sb] = [request |-> Null, output |-> Null]]

EvalInit ==
    /\ evReq = [q \in Reqs |-> NoEval]
    /\ evPc = [q \in Reqs |-> "idle"]
    /\ evThread = [q \in Reqs |-> "none"]
    /\ evSandbox = [q \in Reqs |-> 0]
    /\ sandboxes = <<>>
    /\ evResult = [q \in Reqs |-> NoResult]
    /\ evChannel = [q \in Reqs |-> [state |-> "none"]]
    /\ evOutcome = [q \in Reqs |-> NoResult]
    /\ evReceived = [q \in Reqs |-> 0]

\* the handler of request q calls eval_lua_code (with the Lua state that
\* prepare_lua_ctx made for it) or eval_js_code: a one-shot channel, for JS
\* the tokio runtime (Err => return before any thread), std::thread::spawn
\* (handler/lua/mod.rs 30-36, handler/js.rs 68-77)
EvalCall(q, engine, uid, rtOk) ==
    /\ evPc[q] = "idle"
    /\ evReq' = [evReq EXCEPT ![q] =
                    [present |-> TRUE, engine |-> engine, uid |-> uid]]
    /\ IF engine = "js" /\ ~rtOk
       THEN /\ evOutcome' = [evOutcome EXCEPT
                                ![q] = ErrResult("CreateTokioRuntime")]
            /\ evPc' = [evPc EXCEPT ![q] = "done"]
            /\ UNCHANGED <<evThread, evSandbox, sandboxes, evChannel>>
       ELSE /\ evPc' = [evPc EXCEPT ![q] = "waiting"]
            /\ evChannel' = [evChannel EXCEPT ![q] = [state |-> "empty"]]
            /\ evThread' = [evThread EXCEPT ![q] = "spawned"]
            /\ IF engine = "lua"
               THEN LET sb == new_sandbox(sandboxes) IN
                    /\ sandboxes' = WithSandbox(sandboxes, sb)
                    /\ evSandbox' = [evSandbox EXCEPT ![q] = sb]
               ELSE UNCHANGED <<evSandbox, sandboxes>>
            /\ UNCHANGED evOutcome
    /\ UNCHANGED <<evResult, evReceived>>
    /\ UNCHANGED notEvalVars

\* the thread of q sets its sandbox up: Lua builds the runtime and hands the
\* request to the chunk (handler/lua/mod.rs 37-52); JS makes the runtime's
\* sandbox and sets the context (handler/js.rs 23-45); Err => the result
EvalSetUp(q, ok) ==
    /\ evThread[q] = "spawned"
    /\ IF ~ok
       THEN /\ evResult' = [evResult EXCEPT ![q] =
                   ErrResult(IF evReq[q].engine = "lua" THEN "CreateRuntime"
                             ELSE "PrepareJsRuntime")]
            /\ evThread' = [evThread EXCEPT ![q] = "finished"]
            /\ UNCHANGED <<evSandbox, sandboxes>>
       ELSE LET sb == IF evReq[q].engine = "lua" THEN evSandbox[q]
                      ELSE new_sandbox(sandboxes)
                made == IF evReq[q].engine = "lua" THEN sandboxes
                        ELSE WithSandbox(sandboxes, sb)
            IN /\ sandboxes' = [made EXCEPT ![sb].request = evReq[q].uid]
               /\ evSandbox' = [evSandbox EXCEPT ![q] = sb]
               /\ evThread' = [evThread EXCEPT ![q] = "loaded"]
               /\ UNCHANGED evResult
    /\ UNCHANGED <<evReq, evPc, evChannel, evOutcome, evReceived>>
    /\ UNCHANGED notEvalVars

\* the script of q runs in its sandbox: it reads the request of the sandbox
\* and returns an output made from it, or fails, or the thread panics and
\* drops the sender (handler/lua/mod.rs 54-59, handler/js.rs 47-57)
EvalRun(q, how) ==
    /\ evThread[q] = "loaded"
    /\ LET sb == evSandbox[q] IN
       CASE how = "ok" ->
              /\ sandboxes' = [sandboxes EXCEPT
                                  ![sb].output = sandboxes[sb].request]
              /\ evResult' = [evResult EXCEPT
                                 ![q] = OkResult(sandboxes[sb].request)]
              /\ evThread' = [evThread EXCEPT ![q] = "finished"]
              /\ UNCHANGED evChannel
         [] how = "error" ->
              /\ evResult' = [evResult EXCEPT ![q] = ErrResult("Eval")]
              /\ evThread' = [evThread EXCEPT ![q] = "finished"]
              /\ UNCHANGED <<sandboxes, evChannel>>
         [] how = "panic" ->
              /\ evThread' = [evThread EXCEPT ![q] = "dead"]
              /\ evChannel' = [evChannel EXCEPT ![q] = [state |-> "closed"]]
              /\ UNCHANGED <<sandboxes, evResult>>
    /\ UNCHANGED <<evReq, evPc, evSandbox, evOutcome, evReceived>>
    /\ UNCHANGED notEvalVars

\* let _ = tx.send(result)  (handler/lua/mod.rs 63, handler/js.rs 89)
EvalSend(q) ==
    /\ evThread[q] = "finished"
    /\ evChannel' = [evChannel EXCEPT
                        ![q] = [state |-> "full", value |-> evResult[q]]]
    /\ evThread' = [evThread EXCEPT ![q] = "ended"]
    /\ UNCHANGED <<evReq, evPc, evSandbox, sandboxes, evResult, evOutcome,
                   evReceived>>
    /\ UNCHANGED notEvalVars

\* rx.await.map_err(Error::RecvLuaThread)?  (handler/lua/mod.rs 67,
\* handler/js.rs 95)
EvalRecv(q) ==
    /\ evPc[q] = "waiting"
    /\ evChannel[q].state \in {"full", "closed"}
    /\ evOutcome' = [evOutcome EXCEPT ![q] =
                        IF evChannel[q].state = "full" THEN evChannel[q].value
                        ELSE ErrResult("RecvError")]
    /\ evChannel' = [evChannel EXCEPT ![q] = [state |-> "taken"]]
    /\ evReceived' = [evReceived EXCEPT ![q] = @ + 1]
    /\ evPc' = [evPc EXCEPT ![q] = "done"]
    /\ UNCHANGED <<evReq, evThread, evSandbox, sandboxes, evResult>>
    /\ UNCHANGED notEvalVars

EvalNext ==
    \E q \in Reqs :
        \/ \E engine \in Engines, uid \in Uids, rtOk \in BOOLEAN :
              EvalCall(q, engine, uid, rtOk)
        \/ \E ok \in BOOLEAN : EvalSetUp(q, ok)
        \/ \E how \in {"ok", "error", "panic"} : EvalRun(q, how)
        \/ EvalSend(q)
        \/ EvalRecv(q)

(***************************************************************************)
(* bin/checker.rs: the audit worker of a CronPolicy                        *)
(***************************************************************************)

\* Option<HashMap<String, String>>: what the script left as output
NoOutput == [present |-> FALSE]
Outputs ==
    {NoOutput} \cup
    {[present |-> TRUE, map |-> m] :
        m \in {{}, {<<"pod", "x">>}, {<<"reason", "y">>},
               {<<"pod", "x">>, <<"reason", "y">>}}}
\* config.notifications: which of slack and webhook are configured
Notifications == [slack : BOOLEAN, webhook : BOOLEAN]

\* a main that reports an emitted output in its status
exit_status_by_output(result, output) ==
    IF result = "Err" THEN 1
    ELSE IF output.present /\ output.map # {} THEN 1 ELSE 0

\* the exit status of `async fn main() -> Result<()>`: 0 for Ok(()), 1 for
\* Err (lines 12, 42); the script's output is not looked at
exit_status(result, output) == IF result = "Err" THEN 1 ELSE 0

CheckerInit ==
    /\ ckPc = "start"
    /\ ckNotifications = [slack |-> FALSE, webhook |-> FALSE]
    /\ ckOutput = NoOutput
    /\ ckSent = {}
    /\ ckAttempts = <<>>
    /\ ckExit = NoTime

\* `?` on an Err: main returns it and the process exits
CheckerFail ==
    /\ ckPc' = "failed"
    /\ ckExit' = exit_status("Err", ckOutput)
    /\ UNCHANGED <<ckNotifications, ckOutput, ckSent, ckAttempts>>

\* CheckerConfig::try_from_env, kube::Config::infer, the client (15-21)
CheckerConfigure(ok, notifications) ==
    /\ ckPc = "start"
    /\ IF ok
       THEN /\ ckPc' = "fetch"
            /\ ckNotifications' = notifications
            /\ UNCHANGED <<ckOutput, ckSent, ckAttempts, ckExit>>
       ELSE CheckerFail
    /\ UNCHANGED notCheckerVars

\* fetch_resources (line 24)
CheckerFetch(ok) ==
    /\ ckPc = "fetch"
    /\ IF ok
       THEN /\ ckPc' = "prepare"
            /\ UNCHANGED <<ckNotifications, ckOutput, ckSent, ckAttempts,
                           ckExit>>
       ELSE CheckerFail
    /\ UNCHANGED notCheckerVars

\* prepare_js_runtime (lines 27-28)
CheckerPrepare(ok) ==
    /\ ckPc = "prepare"
    /\ IF ok
       THEN /\ ckPc' = "execute"
            /\ UNCHANGED <<ckNotifications, ckOutput, ckSent, ckAttempts,
                           ckExit>>
       ELSE CheckerFail
    /\ UNCHANGED notCheckerVars

\* execute_script and the eval of the output (lines 30-36)
CheckerExecute(ok, output) ==
    /\ ckPc = "execute"
    /\ IF ok
       THEN /\ ckOutput' = output
            /\ ckPc' = IF output.present THEN "notify_slack" ELSE "return"
            /\ UNCHANGED <<ckNotifications, ckSent, ckAttempts, ckExit>>
       ELSE CheckerFail
    /\ UNCHANGED notCheckerVars

\* notify: the context of the templates, policy.name and output.<key> for
\* every key of the output (checker.rs 136-144)
interpolator_context(policy_name, output) ==
    {<<<<"policy", "name">>, policy_name>>}
        \cup {<<<<"output", kv[1]>>, kv[2]>> : kv \in output}

\* a notify that returns at the first delivery that fails
after_notify_slack_returning(ok) == IF ok THEN "notify_webhook" ELSE "return"

\* notify after notify_slack: an Err is logged and notify goes on to the
\* webhook (checker.rs 151-155)
after_notify_slack(ok) == "notify_webhook"

\* notify: the slack notification if it is configured; ok: the template
\* and the request succeed (checker.rs 146-154, 172-194)
CheckerNotifySlack(ok) ==
    /\ ckPc = "notify_slack"
    /\ ckAttempts' =
          IF ckNotifications.slack
          THEN Append(ckAttempts,
                      [target |-> "slack",
                       context |-> interpolator_context(PolicyName,
                                                        ckOutput.map)])
          ELSE ckAttempts
    /\ ckSent' = IF ckNotifications.slack /\ ok
                 THEN ckSent \cup {"slack"} ELSE ckSent
    /\ ckPc' = IF ckNotifications.slack THEN after_notify_slack(ok)
               ELSE "notify_webhook"
    /\ UNCHANGED <<ckNotifications, ckOutput, ckExit>>
    /\ UNCHANGED notCheckerVars

\* notify: the webhook notification if it is configured; ok: the headers,
\* the template and the request succeed (checker.rs 155-163, 196-230)
CheckerNotifyWebhook(ok) ==
    /\ ckPc = "notify_webhook"
    /\ ckAttempts' =
          IF ckNotifications.webhook
          THEN Append(ckAttempts,
                      [target |-> "webhook",
                       context |-> interpolator_context(PolicyName,
                                                        ckOutput.map)])
          ELSE ckAttempts
    /\ ckSent' = IF ckNotifications.webhook /\ ok
                 THEN ckSent \cup {"webhook"} ELSE ckSent
    /\ ckPc' = "return"
    /\ UNCHANGED <<ckNotifications, ckOutput, ckExit>>
    /\ UNCHANGED notCheckerVars

\* Ok(())  (line 42)
CheckerReturn ==
    /\ ckPc = "return"
    /\ ckPc' = "exited"
    /\ ckExit' = exit_status("Ok", ckOutput)
    /\ UNCHANGED <<ckNotifications, ckOutput, ckSent, ckAttempts>>
    /\ UNCHANGED notCheckerVars

CheckerNext ==
    \/ \E ok \in BOOLEAN, notifications \in Notifications :
          CheckerConfigure(ok, notifications)
    \/ \E ok \in BOOLEAN : CheckerFetch(ok)
    \/ \E ok \in BOOLEAN : CheckerPrepare(ok)
    \/ \E ok \in BOOLEAN, output \in Outputs : CheckerExecute(ok, output)
    \/ \E ok \in BOOLEAN : CheckerNotifySlack(ok)
    \/ \E ok \in BOOLEAN : CheckerNotifyWebhook(ok)
    \/ CheckerReturn

(***************************************************************************)
(* handler/internal.rs, util.rs: the admission webhook for CronPolicies    *)
(***************************************************************************)

\* how many resource selectors an incoming CronPolicy lists
MaxSelectors == 2

\* the (group, version) pairs the API server serves, in the order in which
\* discovery lists them: the named groups with their versions (the preferred
\* version first), then the core group ("")
ServedPairs ==
    <<<<"apps", "v1">>, <<"apps", "v1beta1">>, <<"ext", "v1">>, <<"", "v1">>>>
\* the preferred version of each group
PreferredPairs == <<<<"apps", "v1">>, <<"ext", "v1">>, <<"", "v1">>>>
\* the clusters: which served pairs have a resource of the selector's kind
Hostings == SUBSET {ServedPairs[i] : i \in DOMAIN ServedPairs}

\* group and version of a resource selector (Null: not given)
Selectors == [group : {Null, "", "apps", "ext"},
              version : {Null, "v1", "v1beta1"}]
SelectorLists == UNION {[1..n -> Selectors] : n \in 0..MaxSelectors}

\* a discovery that stops at the first pair that has the kind
find_first_pair_by_kind(use_preferred_version, hosting) ==
    LET all == SelectSeq(IF use_preferred_version THEN PreferredPairs
                         ELSE ServedPairs, LAMBDA p : p \in hosting)
    IN IF all = <<>> THEN <<>> ELSE <<Head(all)>>

\* fn find_group_version_pairs_by_kind (util.rs 3-66) for the kind of the
\* selector: the pairs that have the kind, among the preferred versions
\* only or among all versions
find_group_version_pairs_by_kind(use_preferred_version, hosting) ==
    SelectSeq(IF use_preferred_version THEN PreferredPairs ELSE ServedPairs,
              LAMBDA p : p \in hosting)

\* the first element of gvs whose group is `group`, as a sequence of at most
\* one element (line 85)
FindGroup(gvs, group) ==
    LET hits == SelectSeq(gvs, LAMBDA p : p[1] = group)
    IN IF hits = <<>> THEN <<>> ELSE <<Head(hits)>>

Denied(message) == [ok |-> FALSE, message |-> message]
Resolved(group, version) ==
    [ok |-> TRUE, resource |-> [group |-> group, version |-> version]]

\* the body of the loop of mutate_cronpolicy for one resource (lines 53-107)
ResolveSelector(resource, hosting) ==
    IF resource.group # Null /\ resource.version # Null
    THEN LET gvs == find_group_version_pairs_by_kind(FALSE, hosting) IN
         IF \E i \in DOMAIN gvs :
               gvs[i] = <<resource.group, resource.version>>
         THEN Resolved(resource.group, resource.version)
         ELSE Denied(<<"group, version, and kind do not exists">>)
    ELSE IF resource.group = Null /\ resource.version # Null
    THEN Denied(<<"only specifying version is not allowed">>)
    ELSE LET gvs == find_group_version_pairs_by_kind(TRUE, hosting) IN
         IF gvs = <<>>
         THEN Denied(<<"kind does not have matching group/versions">>)
         ELSE IF resource.group # Null
         THEN LET gv == FindGroup(gvs, resource.group) IN
              IF gv # <<>> THEN Resolved(gv[1][1], gv[1][2])
              ELSE Denied(<<"group and kind does not have matching group/versions">>)
         ELSE IF Len(gvs) > 1
         THEN Denied(<<"kind has multiple matching group/versions", gvs>>)
         ELSE Resolved(gvs[Len(gvs)][1], gvs[Len(gvs)][2])

\* a diff that leaves the versions out
DiffOfGroups(orig, cp) ==
    {<<i, "group", cp[i].group>> :
         i \in {j \in DOMAIN cp : cp[j].group # orig[j].group}}

\* json_patch::diff(orig_cp, cp) (lines 110-113): an operation for each field
\* of a resource that was filled in
Diff(orig, cp) ==
    {<<i, "group", cp[i].group>> :
         i \in {j \in DOMAIN cp : cp[j].group # orig[j].group}}
    \cup {<<i, "version", cp[i].version>> :
             i \in {j \in DOMAIN cp : cp[j].version # orig[j].version}}

NoPolicyReview == [present |-> FALSE]

PolicyAdmInit ==
    /\ paPc = "idle"
    /\ paReq = NoPolicyReview
    /\ paCp = <<>>
    /\ paNext = 1
    /\ paResponse = NoResponse

\* a POST to /mutate/cronpolicies with a CronPolicy, against a cluster with
\* the given discovery; mutate_cronpolicy starts (lines 46-50, 118-139)
PolicyAdmReceive(resources, hosting) ==
    /\ paPc = "idle"
    /\ paReq' = [present |-> TRUE, resources |-> resources,
                 hosting |-> hosting]
    /\ paCp' = resources
    /\ paNext' = 1
    /\ paResponse' = NoResponse
    /\ paPc' = "loop"
    /\ UNCHANGED notPolicyAdmVars

\* one turn of `for resource in cp.spec.resources.iter_mut()` (lines 52-108)
PolicyAdmResolve ==
    /\ paPc = "loop"
    /\ paNext <= Len(paCp)
    /\ LET res == ResolveSelector(paCp[paNext], paReq.hosting) IN
       IF res.ok
       THEN /\ paCp' = [paCp EXCEPT ![paNext] = res.resource]
            /\ paNext' = paNext + 1
            /\ UNCHANGED <<paPc, paResponse>>
       ELSE /\ paResponse' = [type |-> "review", allowed |-> FALSE,
                              message |-> res.message, patch |-> NoPatch]
            /\ paPc' = "done"
            /\ UNCHANGED <<paCp, paNext>>
    /\ UNCHANGED paReq
    /\ UNCHANGED notPolicyAdmVars

\* a discovery call fails: map_err(Error::Kubernetes)?, answered with
\* status 500 (lines 25-33, 58, 78)
PolicyAdmApiError ==
    /\ paPc = "loop"
    /\ paNext <= Len(paCp)
    /\ paCp[paNext].group # Null \/ paCp[paNext].version = Null
    /\ paResponse' = [type |-> "http", status |-> 500,
                      message |-> "Kubernetes"]
    /\ paPc' = "done"
    /\ UNCHANGED <<paReq, paCp, paNext>>
    /\ UNCHANGED notPolicyAdmVars

\* after the loop: the diff is attached as patch (lines 110-115)
PolicyAdmFinish ==
    /\ paPc = "loop"
    /\ paNext > Len(paCp)
    /\ paResponse' = [type |-> "review", allowed |-> TRUE, message |-> <<>>,
                      patch |-> [present |-> TRUE,
                                 operations |-> Diff(paReq.resources, paCp)]]
    /\ paPc' = "done"
    /\ UNCHANGED <<paReq, paCp, paNext>>
    /\ UNCHANGED notPolicyAdmVars

PolicyAdmNext ==
    \/ /\ paPc = "idle"
       /\ \E resources \in SelectorLists, hosting \in Hostings :
             PolicyAdmReceive(resources, hosting)
    \/ PolicyAdmResolve
    \/ PolicyAdmApiError
    \/ PolicyAdmFinish

(***************************************************************************)
(* reconcile/policy.rs: the RBAC resource name of a policy resource        *)
(***************************************************************************)

\* the length of the kinds that are tried letter by letter
MaxWordLen == 2
Letters == {"a", "y", "Y", "s", "h", "c", "x"}
CanonicalKinds ==
    {<<"P", "o", "d">>, <<"C", "l", "a", "s", "s">>,
     <<"P", "r", "o", "x", "y">>,
     <<"D", "a", "e", "m", "o", "n", "S", "e", "t">>,
     <<"Q", "u", "o", "t", "a">>}
PluralKinds ==
    CanonicalKinds \cup UNION {[1..n -> Letters] : n \in 0..MaxWordLen}
\* spec.resources[].plural
ExplicitPlurals == {NoPlural, [some |-> TRUE, value |-> <<"o", "x", "e", "n">>]}

NoPluralResult == [panicked |-> FALSE, resource |-> <<>>]

PluralInit ==
    /\ plPc = "idle"
    /\ plKind = <<>>
    /\ plPlural = NoPlural
    /\ plResult = NoPluralResult

\* make_role_rules computes resources[0] of the PolicyRule of a resource
\* (lines 214-217), in a build with or without overflow checks
PluralOf(kind, plural, overflow_checks) ==
    /\ plPc = "idle"
    /\ plPc' = "done"
    /\ plKind' = kind
    /\ plPlural' = plural
    /\ plResult' =
          IF /\ ~plural.some
             /\ overflow_checks
             /\ to_plural_overflows(to_ascii_lowercase(kind))
          THEN [panicked |-> TRUE, resource |-> <<>>]
          ELSE [panicked |-> FALSE,
                resource |-> PolicyRule([group |-> "", kind |-> kind,
                                         plural |-> plural,
                                         namespace |-> Null,
                                         name |-> Null]).resource]
    /\ UNCHANGED notPluralVars

PluralNext ==
    /\ plPc = "idle"
    /\ \E kind \in PluralKinds, plural \in ExplicitPlurals,
          overflow_checks \in BOOLEAN :
             PluralOf(kind, plural, overflow_checks)

(***************************************************************************)
(* lua/helper.rs: the helper function lookup                               *)
(***************************************************************************)

\* the nesting of the tables and the number of keys that are tried
MaxDepth == 2
MaxKeys == 3
LuaKeys == {"foo", "bar"}

\* mlua::Value: nil, a string, or a table; a table gives nil for a key it
\* does not hold
LuaNil == [type |-> "nil"]
LuaString == [type |-> "string", s |-> "some string"]
LuaTable(fields) == [type |-> "table", fields |-> fields]

RECURSIVE LuaValues(_)
LuaValues(depth) ==
    IF depth = 0
    THEN {LuaNil, LuaString}
    ELSE {LuaNil, LuaString}
         \cup {LuaTable(f) : f \in [LuaKeys -> LuaValues(depth - 1)]}

KeyLists == UNION {[1..n -> LuaKeys] : n \in 0..MaxKeys}

\* Table::get (line 84)
TableGet(t, key) == t.fields[key]

LuaOk(v) == [ok |-> TRUE, value |-> v]
NoLookup == [ok |-> FALSE, value |-> LuaNil]

\* lookup where a value that is not a table is returned as it is
RECURSIVE lookup_keep_value(_, _)
lookup_keep_value(v, keys) ==
    IF keys = <<>>
    THEN LuaOk(v)
    ELSE IF v.type = "table"
    THEN lookup_keep_value(TableGet(v, Head(keys)), Tail(keys))
    ELSE LuaOk(v)

\* fn lookup (lines 78-90)
RECURSIVE lookup(_, _)
lookup(v, keys) ==
    IF keys = <<>>
    THEN LuaOk(v)
    ELSE IF v.type = "table"
    THEN lookup(TableGet(v, Head(keys)), Tail(keys))
    ELSE LuaOk(LuaNil)

LookupInit ==
    /\ lkPc = "idle"
    /\ lkV = LuaNil
    /\ lkKeys = <<>>
    /\ lkResult = NoLookup

\* a script calls lookup(v, k1, ..., kn)
LookupCall(v, keys) ==
    /\ lkPc = "idle"
    /\ lkPc' = "done"
    /\ lkV' = v
    /\ lkKeys' = keys
    /\ lkResult' = lookup(v, keys)
    /\ UNCHANGED notLookupVars

LookupNext ==
    /\ lkPc = "idle"
    /\ \E v \in LuaValues(MaxDepth), keys \in KeyLists : LookupCall(v, keys)

(***************************************************************************)
(* bin/webhook.rs: the reload of the TLS certificate and key               *)
(***************************************************************************)

\* generations each file goes through, and watcher errors
MaxTlsGens == 2
MaxTlsWatchErrors == 1
\* mpsc::channel::<()>(10) (line 84)
TLS_CHANNEL_BUFFER == 10
TlsFiles == {"cert", "key"}
\* a file is rewritten in place, or replaced by a new file at the same path
\* (rename over it, or the swap of the directory a mounted secret links to)
TlsChanges == {"write", "replace"}

\* the material on disk is a matching pair
TlsConsistent(disk) == disk.cert = disk.key

\* fn reload_config (lines 42-46): reload_from_pem_file reads both files and
\* replaces the configuration only when it could build one
reload_config(disk, served, loads) ==
    IF loads
    THEN [result |-> "ok", served |-> disk]
    ELSE [result |-> "failed", served |-> served]

\* main up to the start of the server (lines 79-105)
TlsInit ==
    /\ tlsRunning = TRUE
    /\ tlsDisk = [cert |-> 0, key |-> 0]
    /\ tlsServed = [cert |-> 0, key |-> 0]
    /\ tlsWatched = [f \in TlsFiles |-> TRUE]
    /\ tlsChannel = 0
    /\ tlsLastReload = "none"
    /\ tlsWatchErrors = 0

\* a file changes on disk; the watcher's callback (lines 91-98) sends one
\* message if the path is still watched. The watch belongs to the file that
\* was at the path when main called watch (lines 104-105), and main never
\* watches again.
TlsFileChange(file, how) ==
    /\ tlsDisk[file] < MaxTlsGens
    /\ tlsChannel < TLS_CHANNEL_BUFFER
    /\ tlsDisk' = [tlsDisk EXCEPT ![file] = @ + 1]
    /\ tlsChannel' = IF tlsWatched[file] /\ tlsRunning
                     THEN tlsChannel + 1 ELSE tlsChannel
    /\ tlsWatched' = IF how = "replace"
                     THEN [tlsWatched EXCEPT ![file] = FALSE]
                     ELSE tlsWatched
    /\ UNCHANGED <<tlsRunning, tlsServed, tlsLastReload, tlsWatchErrors>>
    /\ UNCHANGED notTlsVars

\* the watcher reports an error: the callback only logs (lines 99-101)
TlsWatchError ==
    /\ tlsWatchErrors < MaxTlsWatchErrors
    /\ tlsWatchErrors' = tlsWatchErrors + 1
    /\ UNCHANGED <<tlsRunning, tlsDisk, tlsServed, tlsWatched, tlsChannel,
                   tlsLastReload>>
    /\ UNCHANGED notTlsVars

\* one turn of reload_config_loop (lines 54-64); a pair that does not match
\* is refused or loaded, depending on the TLS library
TlsReload(loads) ==
    /\ tlsRunning
    /\ tlsChannel > 0
    /\ TlsConsistent(tlsDisk) => loads
    /\ LET res == reload_config(tlsDisk, tlsServed, loads) IN
       /\ tlsServed' = res.served
       /\ tlsLastReload' = res.result
    /\ tlsChannel' = tlsChannel - 1
    /\ UNCHANGED <<tlsRunning, tlsDisk, tlsWatched, tlsWatchErrors>>
    /\ UNCHANGED notTlsVars

\* shutdown_signal (lines 31-39): the stopper ends reload_config_loop
TlsShutdown ==
    /\ tlsRunning
    /\ tlsRunning' = FALSE
    /\ UNCHANGED <<tlsDisk, tlsServed, tlsWatched, tlsChannel, tlsLastReload,
                   tlsWatchErrors>>
    /\ UNCHANGED notTlsVars

TlsNext ==
    \/ \E file \in TlsFiles, how \in TlsChanges : TlsFileChange(file, how)
    \/ TlsWatchError
    \/ \E loads \in BOOLEAN : TlsReload(loads)
    \/ TlsShutdown

(***************************************************************************)
(* leader_election.rs: lease_expired on any lease the API can return       *)
(***************************************************************************)

\* the times of the leases and of the calls that are tried
MaxExpiryTime == 3
ExpiryTimes == {NoTime} \cup 0..MaxExpiryTime
\* spec.leaseDurationSeconds is optional in the Lease API
ExpiryDurations == {NoTime, 1, 2}
ExpiryLeases ==
    [renewTime : ExpiryTimes, acquireTime : ExpiryTimes,
     duration : ExpiryDurations]

NoExpiry == [panicked |-> FALSE, expired |-> FALSE]

\* `lease_duration_seconds.as_ref().unwrap()` (lines 185-186) is evaluated
\* before the times are looked at
lease_expired_panics(l) == l.duration = NoTime

ExpiryInit ==
    /\ exPc = "idle"
    /\ exLease = [renewTime |-> NoTime, acquireTime |-> NoTime,
                  duration |-> NoTime]
    /\ exNow = 0
    /\ exResult = NoExpiry

\* acquire_or_create got the lease from the API and asks whether it is
\* expired (lines 34-39)
ExpiryCall(l, t) ==
    /\ exPc = "idle"
    /\ exPc' = "done"
    /\ exLease' = l
    /\ exNow' = t
    /\ exResult' = IF lease_expired_panics(l)
                   THEN [panicked |-> TRUE, expired |-> FALSE]
                   ELSE [panicked |-> FALSE, expired |-> lease_expired(l, t)]
    /\ UNCHANGED notExpiryVars

ExpiryNext ==
    /\ exPc = "idle"
    /\ \E l \in ExpiryLeases, t \in 0..(MaxExpiryTime + 3) : ExpiryCall(l, t)

(***************************************************************************)
(* reconcile.rs (error_policy), bin/controller.rs (controller_for_each):   *)
(* what the controller does with the result of a reconcile                 *)
(***************************************************************************)

\* the span of time, the API failures and the changes that are followed
MaxRequeueTime == 8
MaxRequeueFailures == 2
MaxRequeueEdits == 1
\* Duration::from_secs(3) of error_policy
REQUEUE_SECONDS == 3

\* Action::await_change() (rule.rs 186, 230; policy.rs 457)
await_change == [requeue_after |-> NoTime]

\* an error_policy that waits for the next change
error_policy_await_change(error) == await_change

\* pub fn error_policy (reconcile.rs 215-219)
error_policy(error) == [requeue_after |-> REQUEUE_SECONDS]

\* async fn controller_for_each (controller.rs 136-145): both arms log
controller_for_each(res) == "running"

RequeueInit ==
    /\ rqNow = 0
    /\ rqPc = "queued"
    /\ rqRunAt = NoTime
    /\ rqApplied = FALSE
    /\ rqController = "running"
    /\ rqFailures = 0
    /\ rqEdits = 0

\* time passes
RequeueTick ==
    /\ rqNow < MaxRequeueTime
    /\ rqNow' = rqNow + 1
    /\ UNCHANGED <<rqPc, rqRunAt, rqApplied, rqController, rqFailures, rqEdits>>
    /\ UNCHANGED notRequeueVars

\* the rule or policy changes: the watch of the controller queues it
RequeueChange ==
    /\ rqController = "running"
    /\ rqEdits < MaxRequeueEdits
    /\ rqEdits' = rqEdits + 1
    /\ rqApplied' = FALSE
    /\ rqPc' = IF rqPc = "running" THEN "running_again" ELSE "queued"
    /\ rqRunAt' = IF rqPc = "waiting" THEN NoTime ELSE rqRunAt
    /\ UNCHANGED <<rqNow, rqController, rqFailures>>
    /\ UNCHANGED notRequeueVars

\* the controller calls the reconciler for the queued object
RequeueStart ==
    /\ rqController = "running"
    /\ rqPc = "queued"
    /\ rqPc' = "running"
    /\ UNCHANGED <<rqNow, rqRunAt, rqApplied, rqController, rqFailures, rqEdits>>
    /\ UNCHANGED notRequeueVars

\* what the controller does with the Action of a finished reconcile
Schedule(state, action, t) ==
    IF state = "running_again" THEN [pc |-> "queued", runAt |-> NoTime]
    ELSE IF action.requeue_after = NoTime THEN [pc |-> "idle", runAt |-> NoTime]
    ELSE [pc |-> "waiting", runAt |-> t + action.requeue_after]

\* the reconciler applied the managed objects and returned
\* Ok(Action::await_change())
RequeueReconciled ==
    /\ rqPc \in {"running", "running_again"}
    /\ rqApplied' = (rqPc = "running")
    /\ LET next == Schedule(rqPc, await_change, rqNow) IN
       rqPc' = next.pc /\ rqRunAt' = next.runAt
    /\ rqController' = controller_for_each("Ok")
    /\ UNCHANGED <<rqNow, rqFailures, rqEdits>>
    /\ UNCHANGED notRequeueVars

\* an API call of the reconciler failed: it returned Err, the controller
\* asks error_policy and hands the error to controller_for_each
RequeueFailed ==
    /\ rqPc \in {"running", "running_again"}
    /\ rqFailures < MaxRequeueFailures
    /\ rqNow + REQUEUE_SECONDS <= MaxRequeueTime
    /\ rqFailures' = rqFailures + 1
    /\ LET next == Schedule(rqPc, error_policy("Kubernetes"), rqNow) IN
       rqPc' = next.pc /\ rqRunAt' = next.runAt
    /\ rqController' = controller_for_each("Err")
    /\ UNCHANGED <<rqNow, rqApplied, rqEdits>>
    /\ UNCHANGED notRequeueVars

\* the time of the requeue has come
RequeueDue ==
    /\ rqController = "running"
    /\ rqPc = "waiting"
    /\ rqNow >= rqRunAt
    /\ rqPc' = "queued"
    /\ rqRunAt' = NoTime
    /\ UNCHANGED <<rqNow, rqApplied, rqController, rqFailures, rqEdits>>
    /\ UNCHANGED notRequeueVars

RequeueNext ==
    \/ RequeueTick \/ RequeueChange \/ RequeueStart
    \/ RequeueReconciled \/ RequeueFailed \/ RequeueDue

(***************************************************************************)
(* reconcile/policy.rs (make_roles_and_clusterroles): the RBAC objects     *)
(* made for the resources of a policy                                      *)
(***************************************************************************)

\* the namespaces a policy's CronJob and ServiceAccount may live in
JobNamespaces == {PolicyNamespace, "jobs"}

\* spec.resources as the list it is: resources with or without a group,
\* each at most once
RoleResources ==
    [group : {"", Null}, kind : PolicyKinds, plural : {NoPlural},
     namespace : TargetNamespaces, name : TargetNames]
RoleLists ==
    UNION {{l \in [1..n -> RoleResources] :
               \A i, j \in 1..n : i # j => l[i] # l[j]} : n \in 0..MaxResources}

\* the elements of a list
Range(l) == {l[i] : i \in DOMAIN l}

\* the resources of the list that name the namespace, in the list's order
\* (lines 338-349: push to the namespace's Vec, or to global_resources)
ResourcesOf(list, ns) == SelectSeq(list, LAMBDA r : r.namespace = ns)

\* the future of a resource waits for the API when the resource gives no
\* group (find_group_version_pairs_by_kind, lines 199-201); with a group it
\* is ready when it is first polled
Suspends(r) == r.group = Null

\* the order of BTreeMap<String, _>::into_iter over the namespaces
NamespaceRank(ns) == IF ns = "a" THEN 1 ELSE 2

\* FuturesUnordered with try_collect (lines 229-231): the futures are polled
\* in the order they were pushed and one that is ready is handed over at
\* once; the ones that wait are handed over as their API calls finish
YieldOrders(list) ==
    LET ready == SelectSeq(list, LAMBDA r : ~Suspends(r))
        waiting == {r \in Range(list) : Suspends(r)}
    IN {ready \o tl : tl \in Orders(waiting)}

\* the Vec<PolicyRule> of make_role_rules for one order of handing over
RulesInOrder(order) == [i \in DOMAIN order |-> PolicyRule(order[i])]

NoRoles == [made |-> FALSE]

\* a reconcile that applies the CronJob before the RBAC objects
AppliesCronJobFirst(made, taken, cronjob_namespace) ==
    <<make_cronjob(PolicyName, cronjob_namespace,
                   policy_owner_ref(PolicyName))>>
        \o Concat([i \in DOMAIN taken |-> made.roles[taken[i].namespace]])
        \o made.clusterrole

\* the applies of reconcile_cronpolicy after make_roles_and_clusterroles
\* has returned (lines 426-455): for each pair of the Vec the Role, then
\* its RoleBinding; the ClusterRole and its binding if there are any; the
\* CronJob
AppliesAfterRoles(made, taken, cronjob_namespace) ==
    Concat([i \in DOMAIN taken |-> made.roles[taken[i].namespace]])
        \o made.clusterrole
        \o <<make_cronjob(PolicyName, cronjob_namespace,
                          policy_owner_ref(PolicyName))>>

RolesInit ==
    /\ rbPc = "idle"
    /\ rbArgs = [cronjob_namespace |-> PolicyNamespace, list |-> <<>>,
                 resources |-> {}]
    /\ rbPending = {}
    /\ rbRoles = <<>>
    /\ rbTodo = <<>>
    /\ rbWritten = <<>>
    /\ rbOut = NoRoles

\* reconcile_cronpolicy is called for a policy: the apply of the
\* ServiceAccount fails and `?` returns the error (lines 411-415)
RolesAccountFail(cronjob_namespace, list) ==
    /\ rbPc = "idle"
    /\ rbPc' = "failed"
    /\ rbArgs' = [cronjob_namespace |-> cronjob_namespace, list |-> list,
                  resources |-> Range(list)]
    /\ UNCHANGED <<rbPending, rbRoles, rbTodo, rbWritten, rbOut>>
    /\ UNCHANGED notRolesVars

\* reconcile_cronpolicy is called for a policy, applies the ServiceAccount
\* (lines 411-415) and calls make_roles_and_clusterroles; the resources
\* are grouped by namespace and one future per namespace is put into the
\* FuturesUnordered (lines 336-373)
RolesCall(cronjob_namespace, list) ==
    /\ rbPc = "idle"
    /\ rbPc' = "collect"
    /\ rbArgs' = [cronjob_namespace |-> cronjob_namespace, list |-> list,
                  resources |-> Range(list)]
    /\ rbPending' = {r.namespace : r \in Range(list)} \ {Null}
    /\ rbRoles' = <<>>
    /\ rbTodo' = <<>>
    /\ rbWritten' = <<make_serviceaccount(PolicyName, cronjob_namespace,
                                          policy_owner_ref(PolicyName))>>
    /\ rbOut' = NoRoles
    /\ UNCHANGED notRolesVars

\* the future of a namespace waits when one of its resources does
RoleSuspends(ns) == \E r \in rbArgs.resources : r.namespace = ns /\ Suspends(r)

\* try_collect takes the pair of the future that finishes next (lines
\* 353-373): the ready futures in the order of the map, then the waiting
\* ones as they finish; the rules of the Role are in the order the inner
\* try_collect of make_role_rules took them
RolesCollect(ns, order) ==
    /\ rbPc = "collect"
    /\ ns \in rbPending
    /\ IF RoleSuspends(ns)
       THEN \A other \in rbPending : RoleSuspends(other)
       ELSE \A other \in rbPending :
               ~RoleSuspends(other) =>
                   NamespaceRank(ns) <= NamespaceRank(other)
    /\ order \in YieldOrders(ResourcesOf(rbArgs.list, ns))
    /\ rbPending' = rbPending \ {ns}
    /\ rbRoles' = Append(rbRoles, [namespace |-> ns,
                                   rules |-> RulesInOrder(order)])
    /\ UNCHANGED <<rbPc, rbArgs, rbTodo, rbWritten, rbOut>>
    /\ UNCHANGED notRolesVars

\* a discovery call of a waiting future fails: try_collect and the
\* function return the error, and `?` ends the reconcile (lines 201, 364,
\* 373, 425)
RolesFail ==
    /\ rbPc = "collect"
    /\ \E r \in rbArgs.resources :
          Suspends(r) /\ (r.namespace = Null \/ r.namespace \in rbPending)
    /\ rbPc' = "failed"
    /\ rbPending' = {}
    /\ rbRoles' = <<>>
    /\ rbOut' = NoRoles
    /\ UNCHANGED <<rbArgs, rbTodo, rbWritten>>
    /\ UNCHANGED notRolesVars

\* every future has finished: the ClusterRole is made when a resource has
\* no namespace, and the function returns (lines 374-387); the reconcile
\* goes on to its applies
RolesReturn(order) ==
    /\ rbPc = "collect"
    /\ rbPending = {}
    /\ order \in YieldOrders(ResourcesOf(rbArgs.list, Null))
    /\ rbPc' = "apply"
    /\ LET made == make_roles_and_clusterroles(
                       PolicyName, rbArgs.cronjob_namespace,
                       policy_owner_ref(PolicyName), rbArgs.resources)
       IN /\ rbOut' = [made |-> TRUE, value |-> made, roles |-> rbRoles,
                       clusterrules |-> RulesInOrder(order)]
          /\ rbTodo' = AppliesAfterRoles(made, rbRoles,
                                         rbArgs.cronjob_namespace)
    /\ UNCHANGED <<rbArgs, rbPending, rbRoles, rbWritten>>
    /\ UNCHANGED notRolesVars

\* the next apply patch succeeds (lines 430-455)
RolesApply ==
    /\ rbPc = "apply"
    /\ rbTodo # <<>>
    /\ rbWritten' = Append(rbWritten, Head(rbTodo))
    /\ rbTodo' = Tail(rbTodo)
    /\ UNCHANGED <<rbPc, rbArgs, rbPending, rbRoles, rbOut>>
    /\ UNCHANGED notRolesVars

\* the next apply patch fails: map_err and `?` return the error
RolesApplyFail ==
    /\ rbPc = "apply"
    /\ rbTodo # <<>>
    /\ rbPc' = "failed"
    /\ UNCHANGED <<rbArgs, rbPending, rbRoles, rbTodo, rbWritten, rbOut>>
    /\ UNCHANGED notRolesVars

\* the CronJob was applied: Ok(Action::await_change()) (line 457)
RolesApplied ==
    /\ rbPc = "apply"
    /\ rbTodo = <<>>
    /\ rbPc' = "ok"
    /\ UNCHANGED <<rbArgs, rbPending, rbRoles, rbTodo, rbWritten, rbOut>>
    /\ UNCHANGED notRolesVars

\* the reconcile has ended; the next one is called
RolesDone ==
    /\ rbPc \in {"ok", "failed"}
    /\ rbPc' = "idle"
    /\ rbArgs' = [cronjob_namespace |-> PolicyNamespace, list |-> <<>>,
                  resources |-> {}]
    /\ rbRoles' = <<>>
    /\ rbTodo' = <<>>
    /\ rbWritten' = <<>>
    /\ rbOut' = NoRoles
    /\ UNCHANGED rbPending
    /\ UNCHANGED notRolesVars

RolesNext ==
    \/ /\ rbPc = "idle"
       /\ \E ns \in JobNamespaces, list \in RoleLists :
             RolesCall(ns, list) \/ RolesAccountFail(ns, list)
    \/ /\ rbPc = "collect"
       /\ \E ns \in rbPending :
             \E order \in YieldOrders(ResourcesOf(rbArgs.list, ns)) :
                RolesCollect(ns, order)
    \/ RolesFail
    \/ /\ rbPc = "collect"
       /\ \E order \in YieldOrders(ResourcesOf(rbArgs.list, Null)) :
             RolesReturn(order)
    \/ RolesApply \/ RolesApplyFail \/ RolesApplied
    \/ RolesDone

(***************************************************************************)
(* checker.rs (fetch_resources), bin/checker.rs (main): the resources the  *)
(* audit worker fetches for the script                                     *)
(***************************************************************************)

\* how many resources config.resources lists
MaxFetches == 2

\* Option<CronPolicyResourceListParams> of a resource
NoParams == [some |-> FALSE]
FetchParams ==
    {NoParams, [some |-> TRUE, label_selector |-> "l", field_selector |-> "f"]}
\* the resources: with or without a name, with or without list params
FetchResources == [name : {Null, "x"}, list_params : FetchParams]
FetchLists == UNION {[1..n -> FetchResources] : n \in 0..MaxFetches}
\* what the API answers: an object or objects, none, or an error
FetchResponses == {"some", "none", "error"}

\* the request of one resource's future (lines 88-110): get_opt of the name
\* when a name is set, else list with the selectors of list_params or with
\* the default ListParams
fetch_request(resource) ==
    IF resource.name # Null
    THEN [call |-> "get_opt", name |-> resource.name]
    ELSE [call |-> "list",
          label_selector |-> IF resource.list_params.some
                             THEN resource.list_params.label_selector
                             ELSE Null,
          field_selector |-> IF resource.list_params.some
                             THEN resource.list_params.field_selector
                             ELSE Null]

\* the SingleOrList of an answered request, or the error of `?`
fetch_value(request, answer) ==
    IF answer = "error" THEN [kind |-> "Err"]
    ELSE IF request.call = "get_opt"
    THEN [kind |-> "Single",
          object |-> IF answer = "some" THEN request.name ELSE Null]
    ELSE [kind |-> "List",
          items |-> IF answer = "some"
                    THEN <<[label |-> request.label_selector,
                            field |-> request.field_selector]>>
                    ELSE <<>>]

FetchPending == [kind |-> "Pending"]
NoFetch == [returned |-> FALSE]

\* a try_collect that takes the values as the futures finish
unordered_try_collect(results, order) ==
    IF \E i \in DOMAIN order : results[order[i]].kind = "Err"
    THEN [returned |-> TRUE, ok |-> FALSE]
    ELSE IF Len(order) = Len(results)
    THEN [returned |-> TRUE, ok |-> TRUE,
          value |-> [i \in DOMAIN order |-> results[order[i]]]]
    ELSE NoFetch

\* FuturesOrdered with try_collect (lines 115-118): the values are taken in
\* the order the futures were pushed; the first Err that is taken ends the
\* collection, and the Vec is returned when every future has finished
ordered_try_collect(results, order) ==
    LET open == {i \in DOMAIN results : results[i].kind \in {"Pending", "Err"}}
        first == CHOOSE i \in open : \A j \in open : i <= j
    IN IF open = {}
       THEN [returned |-> TRUE, ok |-> TRUE, value |-> results]
       ELSE IF results[first].kind = "Err"
       THEN [returned |-> TRUE, ok |-> FALSE]
       ELSE NoFetch

FetchInit ==
    /\ ftPc = "start"
    /\ ftList = <<>>
    /\ ftCalls = <<>>
    /\ ftResults = <<>>
    /\ ftOrder = <<>>
    /\ ftOut = NoFetch
    /\ ftScript = NoFetch

\* main calls fetch_resources with config.resources (bin/checker.rs 24);
\* every resource gets its future (checker.rs 69-115)
FetchCall(list) ==
    /\ ftPc = "start"
    /\ ftPc' = "fetch"
    /\ ftList' = list
    /\ ftCalls' = [i \in DOMAIN list |-> fetch_request(list[i])]
    /\ ftResults' = [i \in DOMAIN list |-> FetchPending]
    /\ ftOrder' = <<>>
    /\ UNCHANGED <<ftOut, ftScript>>
    /\ UNCHANGED notFetchVars

\* the future of resource i finishes: the API answered its request, or the
\* discovery of its group and version or the request failed (lines 72-112)
FetchComplete(i, answer) ==
    /\ ftPc = "fetch"
    /\ i \in DOMAIN ftResults
    /\ ftResults[i] = FetchPending
    /\ ftResults' = [ftResults EXCEPT ![i] = fetch_value(ftCalls[i], answer)]
    /\ ftOrder' = Append(ftOrder, i)
    /\ UNCHANGED <<ftPc, ftList, ftCalls, ftOut, ftScript>>
    /\ UNCHANGED notFetchVars

\* try_collect has its result and fetch_resources returns it
FetchReturn ==
    /\ ftPc = "fetch"
    /\ ordered_try_collect(ftResults, ftOrder).returned
    /\ ftOut' = ordered_try_collect(ftResults, ftOrder)
    /\ ftPc' = "fetched"
    /\ UNCHANGED <<ftList, ftCalls, ftResults, ftOrder, ftScript>>
    /\ UNCHANGED notFetchVars

\* main: `?` returns the error of the fetch; else the runtime is prepared
\* with the resources and the script is run (bin/checker.rs 24-32)
FetchMain ==
    /\ ftPc = "fetched"
    /\ IF ftOut.ok
       THEN /\ ftPc' = "script"
            /\ ftScript' = [returned |-> TRUE, resources |-> ftOut.value]
       ELSE /\ ftPc' = "failed"
            /\ UNCHANGED ftScript
    /\ UNCHANGED <<ftList, ftCalls, ftResults, ftOrder, ftOut>>
    /\ UNCHANGED notFetchVars

FetchNext ==
    \/ /\ ftPc = "start"
       /\ \E list \in FetchLists : FetchCall(list)
    \/ /\ ftPc = "fetch"
       /\ \E i \in DOMAIN ftResults, answer \in FetchResponses :
             FetchComplete(i, answer)
    \/ FetchReturn
    \/ FetchMain

(***************************************************************************)
(* filewatcher.rs (FileWatcher::spawn): a watched file, the event channel  *)
(* and the watcher loop                                                    *)
(***************************************************************************)

\* how often the file changes, how many errors the backend reports, and
\* the buffer the FileWatcher is made with
MaxFwChanges == 3
MaxFwErrors == 1
MaxFwBuffer == 1

\* a change of the file: written in place, or replaced by a new file that
\* is moved over the path
FwChangeKinds == {"write", "replace"}

\* a loop that leaves the watch as the event found it
after_event_without_rewatch(kind, watch, inode, ok) == watch

\* the watch after the loop has looked at an event (lines 48-55): a remove
\* event makes it call watcher.watch(path) again, which puts the watch on
\* the file now at the path; if the call fails no watch is left
after_event(kind, watch, inode, ok) ==
    IF kind = "remove" THEN (IF ok THEN inode ELSE 0) ELSE watch

\* a loop that does not wait for the handler
after_call_without_await == "recv"

\* `(self.handler)(event).await` (line 56): the loop goes on when the
\* handler's future has finished
after_call == "handler"

FwInit ==
    /\ fwInode = 1
    /\ fwWatch = 1
    /\ fwQueue = <<>>
    /\ fwChannel = <<>>
    /\ fwPc = "recv"
    /\ fwRunning = 0
    /\ fwCalls = <<>>
    /\ fwSeen = 0
    /\ fwLog = {}
    /\ fwStopped = FALSE
    /\ fwChanges = 0
    /\ fwErrors = 0

\* the file changes.  A watch is on an inode: a write to the watched file
\* gives a modify event; a replace unlinks the watched file, which gives a
\* remove event and ends the watch; a change of a file that has no watch
\* gives no event
FwChange(how) ==
    /\ fwChanges < MaxFwChanges
    /\ fwChanges' = fwChanges + 1
    /\ fwInode' = IF how = "replace" THEN fwInode + 1 ELSE fwInode
    /\ IF fwWatch = fwInode
       THEN /\ fwQueue' = Append(fwQueue,
                                 [kind |-> IF how = "replace" THEN "remove"
                                           ELSE "modify",
                                  change |-> fwChanges + 1])
            /\ fwWatch' = IF how = "replace" THEN 0 ELSE fwWatch
       ELSE UNCHANGED <<fwQueue, fwWatch>>
    /\ UNCHANGED <<fwChannel, fwPc, fwRunning, fwCalls, fwLog, fwStopped,
                   fwErrors, fwSeen>>
    /\ UNCHANGED notFwVars

\* the backend reports an error: the callback gets an Err
FwWatchError ==
    /\ fwErrors < MaxFwErrors
    /\ fwErrors' = fwErrors + 1
    /\ fwQueue' = Append(fwQueue, [kind |-> "error", change |-> 0])
    /\ UNCHANGED <<fwInode, fwWatch, fwChannel, fwPc, fwRunning, fwCalls,
                   fwLog, fwStopped, fwChanges, fwSeen>>
    /\ UNCHANGED notFwVars

\* `let _ = sender.blocking_send(event_res)` (lines 37-39): the callback
\* waits while the channel is full; once the loop has ended the receiver is
\* gone and the event is dropped
FwSend ==
    /\ fwQueue # <<>>
    /\ fwPc = "ended" \/ Len(fwChannel) < MaxFwBuffer
    /\ fwQueue' = Tail(fwQueue)
    /\ fwChannel' = IF fwPc = "ended" THEN fwChannel
                    ELSE Append(fwChannel, Head(fwQueue))
    /\ UNCHANGED <<fwInode, fwWatch, fwPc, fwRunning, fwCalls, fwLog,
                   fwStopped, fwChanges, fwErrors, fwSeen>>
    /\ UNCHANGED notFwVars

\* one turn of the loop (lines 45-62): the stopper has not stopped and
\* recv gives the next event; an Err is logged; for a remove event the path
\* is watched again (ok: the call succeeds; a failure is logged), then the
\* handler is called
FwRecv(ok) ==
    /\ fwPc = "recv"
    /\ ~fwStopped
    /\ fwChannel # <<>>
    /\ fwChannel' = Tail(fwChannel)
    /\ LET event == Head(fwChannel) IN
       IF event.kind = "error"
       THEN /\ fwLog' = fwLog \cup {"Failed to watch files"}
            /\ UNCHANGED <<fwWatch, fwPc, fwRunning, fwCalls, fwSeen>>
       ELSE /\ fwWatch' = after_event(event.kind, fwWatch, fwInode, ok)
            /\ fwLog' = IF event.kind = "remove" /\ ~ok
                        THEN fwLog \cup {"Failed to re-watch file"}
                        ELSE fwLog
            /\ fwCalls' = Append(fwCalls, event)
            /\ fwSeen' = fwChanges
            /\ fwRunning' = fwRunning + 1
            /\ fwPc' = after_call
    /\ UNCHANGED <<fwInode, fwQueue, fwStopped, fwChanges, fwErrors>>
    /\ UNCHANGED notFwVars

\* the future of a handler call finishes
FwHandlerDone ==
    /\ fwRunning > 0
    /\ fwRunning' = fwRunning - 1
    /\ fwPc' = IF fwPc = "handler" THEN "recv" ELSE fwPc
    /\ UNCHANGED <<fwInode, fwWatch, fwQueue, fwChannel, fwCalls, fwLog,
                   fwStopped, fwChanges, fwErrors, fwSeen>>
    /\ UNCHANGED notFwVars

\* stopper.stop() (the shutdown signal of the process)
FwStop ==
    /\ ~fwStopped
    /\ fwStopped' = TRUE
    /\ UNCHANGED <<fwInode, fwWatch, fwQueue, fwChannel, fwPc, fwRunning,
                   fwCalls, fwLog, fwChanges, fwErrors, fwSeen>>
    /\ UNCHANGED notFwVars

\* stop_future gives None once the stopper has stopped: the while let ends
\* and with it the task (line 45)
FwEnd ==
    /\ fwPc = "recv"
    /\ fwStopped
    /\ fwPc' = "ended"
    /\ UNCHANGED <<fwInode, fwWatch, fwQueue, fwChannel, fwRunning, fwCalls,
                   fwLog, fwStopped, fwChanges, fwErrors, fwSeen>>
    /\ UNCHANGED notFwVars

FwNext ==
    \/ \E how \in FwChangeKinds : FwChange(how)
    \/ FwWatchError
    \/ FwSend
    \/ \E ok \in BOOLEAN : FwRecv(ok)
    \/ FwHandlerDone
    \/ FwStop
    \/ FwEnd

(***************************************************************************)
(* bin/cli.rs (run_case): the rules of a test case, evaluated in turn      *)
(***************************************************************************)

\* the rules of either kind a case is run with
MaxCliRules == 2

\* what the script of a rule does: it denies never, always, or when the
\* object it is given carries a patch; a mutating rule may give a patch
DenyWhen == {"never", "always", "patched"}
MutatingBehaviours == [deny_if : DenyWhen, patches : BOOLEAN]
ValidatingBehaviours == [deny_if : DenyWhen]
CliRuleLists(behaviours) ==
    UNION {[1..n -> behaviours] : n \in 0..MaxCliRules}

\* metadata.name of the rule at place i of its list; its deny reason
\* carries the name
RuleName(kind, i) == kind \o ToString(i)

Denies(rule, object) ==
    \/ rule.deny_if = "always"
    \/ rule.deny_if = "patched" /\ object # {}

\* `actual` before the first rule (lines 187-191)
InitialResult(object) ==
    [allowed |-> TRUE, message |-> "", final_object |-> object]

\* run_mutating_rule (lines 265-307): the response of mutate; its patch,
\* if there is one, is applied to request.object, and the CaseResult
\* carries the patched object
run_mutating_rule(rule, name, object) ==
    LET denied == Denies(rule, object)
        patched == IF rule.patches THEN object \cup {name} ELSE object
    IN  [allowed |-> ~denied,
         message |-> IF denied THEN name ELSE "",
         final_object |-> patched]

\* run_validating_rule (lines 309-327)
run_validating_rule(rule, name, object) ==
    LET denied == Denies(rule, object)
    IN  [allowed |-> ~denied,
         message |-> IF denied THEN name ELSE "",
         final_object |-> object]

NoCase == [mutating_rules |-> <<>>, validating_rules |-> <<>>]

CliInit ==
    /\ clPc = "idle"
    /\ clCase = NoCase
    /\ clIndex = 1
    /\ clRequest = {}
    /\ clActual = InitialResult({})
    /\ clResults = <<>>

\* run_case is called; the request and the stubs are loaded and `actual`
\* is made (lines 147-191)
CliRunCase(mutating_rules, validating_rules) ==
    /\ clPc = "idle"
    /\ clPc' = "mutating"
    /\ clCase' = [mutating_rules |-> mutating_rules,
                  validating_rules |-> validating_rules]
    /\ clIndex' = 1
    /\ clRequest' = {}
    /\ clActual' = InitialResult({})
    /\ clResults' = <<>>
    /\ UNCHANGED notCliVars

\* one turn of `for rule in mutating_rules` (lines 193-211): `break`
\* leaves this loop, and the loop over the validating rules follows it
CliMutatingRule ==
    /\ clPc = "mutating"
    /\ clIndex <= Len(clCase.mutating_rules)
    /\ LET name == RuleName("mutating", clIndex)
           result == run_mutating_rule(clCase.mutating_rules[clIndex], name,
                                       clRequest)
       IN /\ clActual' = result
          /\ clRequest' = result.final_object
          /\ clResults' = Append(clResults,
                                 [rule |-> name, saw |-> clRequest,
                                  allowed |-> result.allowed,
                                  message |-> result.message])
          /\ IF ~result.allowed
             THEN clPc' = "validating" /\ clIndex' = 1
             ELSE clIndex' = clIndex + 1 /\ UNCHANGED clPc
    /\ UNCHANGED clCase
    /\ UNCHANGED notCliVars

\* the mutating rules are used up: the loop ends
CliMutatingEnd ==
    /\ clPc = "mutating"
    /\ clIndex > Len(clCase.mutating_rules)
    /\ clPc' = "validating"
    /\ clIndex' = 1
    /\ UNCHANGED <<clCase, clRequest, clActual, clResults>>
    /\ UNCHANGED notCliVars

\* one turn of `for rule in validating_rules` (lines 213-231)
CliValidatingRule ==
    /\ clPc = "validating"
    /\ clIndex <= Len(clCase.validating_rules)
    /\ LET name == RuleName("validating", clIndex)
           result == run_validating_rule(clCase.validating_rules[clIndex],
                                         name, clRequest)
       IN /\ clActual' = result
          /\ clResults' = Append(clResults,
                                 [rule |-> name, saw |-> clRequest,
                                  allowed |-> result.allowed,
                                  message |-> result.message])
          /\ IF ~result.allowed
             THEN clPc' = "compare" /\ UNCHANGED clIndex
             ELSE clIndex' = clIndex + 1 /\ UNCHANGED clPc
    /\ UNCHANGED <<clCase, clRequest>>
    /\ UNCHANGED notCliVars

\* the validating rules are used up: `actual` is compared with the
\* expected result (lines 233-255)
CliValidatingEnd ==
    /\ clPc = "validating"
    /\ clIndex > Len(clCase.validating_rules)
    /\ clPc' = "compare"
    /\ UNCHANGED <<clCase, clIndex, clRequest, clActual, clResults>>
    /\ UNCHANGED notCliVars

\* the evaluation of a rule fails (the script throws, the patch does not
\* apply): with_context and `?` return the error (lines 201-204, 221-224)
CliRuleError ==
    /\ \/ clPc = "mutating" /\ clIndex <= Len(clCase.mutating_rules)
       \/ clPc = "validating" /\ clIndex <= Len(clCase.validating_rules)
    /\ clPc' = "error"
    /\ UNCHANGED <<clCase, clIndex, clRequest, clActual, clResults>>
    /\ UNCHANGED notCliVars

\* run_case returns; the next case is run
CliReturn ==
    /\ clPc \in {"compare", "error"}
    /\ clPc' = "idle"
    /\ clCase' = NoCase
    /\ clIndex' = 1
    /\ clRequest' = {}
    /\ clActual' = InitialResult({})
    /\ clResults' = <<>>
    /\ UNCHANGED notCliVars

CliNext ==
    \/ /\ clPc = "idle"
       /\ \E mutating_rules \in CliRuleLists(MutatingBehaviours),
             validating_rules \in CliRuleLists(ValidatingBehaviours) :
             CliRunCase(mutating_rules, validating_rules)
    \/ CliMutatingRule \/ CliMutatingEnd
    \/ CliValidatingRule \/ CliValidatingEnd
    \/ CliRuleError
    \/ CliReturn

Init ==
    /\ LeaseInit /\ RuleInit /\ AdmInit /\ PolicyInit /\ EvalInit
    /\ CheckerInit /\ PolicyAdmInit /\ PluralInit /\ LookupInit /\ TlsInit
    /\ ExpiryInit /\ RequeueInit /\ RolesInit /\ FetchInit /\ FwInit
    /\ CliInit

RuleSpec == Init /\ [][RuleNext]_vars

AdmissionSpec == Init /\ [][AdmissionNext]_vars

PolicySpec == Init /\ [][PolicyNext]_vars

EvalSpec == Init /\ [][EvalNext]_vars

CheckerSpec == Init /\ [][CheckerNext]_vars

PolicyAdmSpec == Init /\ [][PolicyAdmNext]_vars

PluralSpec == Init /\ [][PluralNext]_vars

LookupSpec == Init /\ [][LookupNext]_vars

TlsSpec == Init /\ [][TlsNext]_vars

ExpirySpec == Init /\ [][ExpiryNext]_vars

RolesSpec == Init /\ [][RolesNext]_vars

FetchSpec == Init /\ [][FetchNext]_vars

WatcherSpec == Init /\ [][FwNext]_vars

CliSpec == Init /\ [][CliNext]_vars

\* the controller's runtime runs what it has queued, time passes, and a
\* reconcile that no failure ends returns
RequeueSpec ==
    /\ Init /\ [][RequeueNext]_vars
    /\ WF_vars(RequeueTick) /\ WF_vars(RequeueStart)
    /\ WF_vars(RequeueReconciled) /\ WF_vars(RequeueDue)

\* leader election among the processes; a holder's controllers are one step
Next ==
    \/ Tick
    \/ LeaseFound
    \/ \E p \in Procs :
         \/ Probe(p) \/ AcquireApiError(p) \/ Wake(p) \/ TakeOver(p)
         \/ Create(p) \/ Renew(p) \/ RenewFail(p) \/ Release(p)
         \/ ReleaseFail(p) \/ Interrupt(p) \/ ControllersEnd(p) \/ Die(p)
         \/ MainReturn(p)

Spec == Init /\ [][Next]_vars

\* the controller process whose main is followed task by task; the other
\* processes only compete for the lease
Main == "p1"

MainNext ==
    \/ Tick
    \/ \E p \in Procs :
         \/ Probe(p) \/ AcquireApiError(p) \/ Wake(p) \/ TakeOver(p)
         \/ Create(p) \/ Renew(p) \/ RenewFail(p)
    \/ Signal(Main) \/ EarlyExit(Main) \/ SpawnControllers(Main) \/ Die(Main)
    \/ JoinLease(Main) \/ Release(Main) \/ ReleaseFail(Main)
    \/ MainReturn(Main)
    \/ \E c \in Ctrls : CtrlStop(Main, c) \/ CtrlPanic(Main, c)

MainSpec == Init /\ [][MainNext]_vars

(***************************************************************************)
(* Leader election and controller main: the claims                         *)
(***************************************************************************)

\* acquire_or_create has returned for p and p's release has not happened
Holding(p) ==
    \/ pc[p] \in {"acquired", "controllers"}
    \/ pc[p] = "joining" /\ renew[p] = "loop"

\* C1: at every instant at most one process is in the holding state
\* (acquire_or_create has returned, release has not yet happened).
C1_AtMostOneHolder == Cardinality({p \in Procs : Holding(p)}) <= 1

\* C2: a process runs its reconcilers only while the lease's holderIdentity
\* is its own identity.
C2_ReconcilersOnlyUnderOwnLease ==
    \A p \in Procs : \A c \in Ctrls :
        ctrl[p][c] = "running" => lease.exists /\ lease.holder = p

\* C3: the release of the lease is issued only after the three controller
\* tasks have terminated: none is running once the release has been written.
C3_ReleaseAfterControllers ==
    \A p \in Procs :
        renew[p] = "released" => \A c \in Ctrls : ctrl[p][c] # "running"

(***************************************************************************)
(* CA bundle reload and rule reconcile: the claims                         *)
(***************************************************************************)

\* nothing is left to run: no file event waits, the reloader is idle, no
\* reconcile is scheduled or in flight
Quiescent ==
    /\ events = 0
    /\ reload.pc = "idle"
    /\ \A r \in Rules : ~queued[r] /\ ~run[r].busy

\* the webhook configurations that carry an ownership label
Managed == UNION {Listed(wcs, k) : k \in Kinds}

\* every managed webhook configuration carries caBundle = b
AllCarry(b) ==
    \A o \in Managed : \A i \in DOMAIN o.webhooks :
        o.webhooks[i].clientConfig.caBundle = b

\* C4: after the CA bundle file was written with content B and is not
\* written again, every managed webhook configuration eventually carries
\* caBundle = B: once the reloader and the reconcilers have nothing left to
\* do, the managed webhook configurations carry the content of the file.
C4_BundleReachesWebhooks == Quiescent => AllCarry(caFile)
\* the step is the successful apply of rule r's reconcile
ReconcileApplied(r) ==
    run[r].busy /\ ~run'[r].busy /\ ruleFailures' = ruleFailures

ConfigsOf(r) ==
    {o \in wcs :
        /\ o.name = r[2]
        /\ o.kind = (IF r[1] = "validate"
                     THEN "ValidatingWebhookConfiguration"
                     ELSE "MutatingWebhookConfiguration")}

\* the stored webhook configurations of the kind that r's reconciler must
\* not write
ForeignConfigs(store, r) ==
    {o \in store :
        o.kind = (IF r[1] = "validate"
                  THEN "MutatingWebhookConfiguration"
                  ELSE "ValidatingWebhookConfiguration")}

C6_Shape ==
    \A r \in Rules :
        applied[r] # "never" =>
            /\ Cardinality(ConfigsOf(r)) = 1
            /\ \A o \in ConfigsOf(r) :
                  /\ Len(o.ownerReferences) = 1
                  /\ o.ownerReferences[1].name = r[2]
                  /\ o.ownerReferences[1].kind =
                        (IF r[1] = "validate" THEN "ValidatingRule"
                         ELSE "MutatingRule")
                  /\ {l[2] : l \in {x \in o.labels :
                          x[1] = (IF r[1] = "validate"
                                  THEN "checkpoint.devsisters.com/validatingrule"
                                  ELSE "checkpoint.devsisters.com/mutatingrule")}}
                        = {r[2]}
                  /\ Len(o.webhooks) = 1
                  /\ o.webhooks[1].clientConfig.path = <<r[1], r[2]>>

\* C6: after a successful reconcile of the ValidatingRule (MutatingRule)
\* named N there is exactly one ValidatingWebhookConfiguration
\* (MutatingWebhookConfiguration) named N, with a single owner reference to
\* the rule, the ownership label of the rule's kind set to N and one webhook
\* whose service path is /validate/N (/mutate/N); and the reconcile of a
\* rule never writes a webhook configuration of the other kind.
C6_OneConfigPerRule ==
    /\ []C6_Shape
    /\ [][\A r \in Rules :
            ReconcileApplied(r) =>
                ForeignConfigs(wcs', r) = ForeignConfigs(wcs, r)]_vars

\* both a ValidatingRule and a MutatingRule have been reconciled
C6_Witness == \A r \in Rules : applied[r] # "never"

\* the reloader has applied its mark to the stored configuration of rule r
\* for the change of the bundle
MarkedByReload(r) ==
    \E o \in ConfigsOf(r) :
        <<SHOULD_UPDATE_ANNOTATION_KEY, "true">> \in o.annotations

\* C16: when the content of the CA bundle file changes, exactly one apply is
\* issued per managed webhook configuration as a result of the change: a
\* configuration that the reloader has applied for the change receives no
\* further apply.
C16_OneApplyPerChange ==
    [][\A r \in Rules : ReconcileApplied(r) => ~MarkedByReload(r)]_vars

(***************************************************************************)
(* Admission handlers and script helpers: the claims                       *)
(***************************************************************************)

\* the request in flight belongs to a rule without serviceAccount
NoServiceAccount == admRule.found /\ admRule.serviceAccount = Null

\* C7 (as stated): for a rule without serviceAccount every kubeGet or
\* kubeList call fails with the capability error, no token is requested and
\* the helpers read nothing from the cluster.
C7_AlwaysCapabilityError ==
    NoServiceAccount =>
        /\ lastCall.fn # "none" =>
               lastCall.result = "ServiceAccountInfoNotProvided"
        /\ tokenRequests = 0
        /\ helperReads = {}

\* C7: for a rule without serviceAccount every kubeGet or kubeList call
\* fails, with the capability error when its argument deserializes and with
\* the argument error when it does not; no token is requested and the
\* helpers read nothing from the cluster.
C7_NoReadWithoutServiceAccount ==
    NoServiceAccount =>
        /\ lastCall.fn # "none" =>
               lastCall.result = (IF lastCall.argOk
                                  THEN "ServiceAccountInfoNotProvided"
                                  ELSE "ArgumentError")
        /\ tokenRequests = 0
        /\ helperReads = {}

\* the script of a rule without serviceAccount has called both helpers with
\* well-formed arguments
C7_Witness ==
    /\ NoServiceAccount
    /\ admCalls = MaxCalls
    /\ lastCall.fn = "kubeList"
    /\ lastCall.argOk

\* the posted body is an AdmissionReview with a request
WellFormed == admReq.body.json /\ admReq.body.request.present

\* C9: whenever an AdmissionResponse is returned for a well-formed
\* AdmissionReview with uid U (allow, deny or patch), its uid is U.
C9_ResponseUidIsRequestUid ==
    response.type = "review" /\ WellFormed =>
        response.uid = admReq.body.request.uid

\* a mutate request with uid u2 was denied with a patch attached
C9_Witness ==
    /\ response.type = "review"
    /\ WellFormed
    /\ admReq.body.request.uid = "u2"
    /\ ~response.allowed
    /\ response.patch.present

\* the handler has answered a review that cannot be converted to an
\* AdmissionRequest
AnsweredMalformed ==
    admPc = "done" /\ admReq.body.json /\ ~admReq.body.request.present

\* the uid of the posted review's request, if it has one
RequestUid ==
    IF admReq.body.request.present THEN admReq.body.request.uid ELSE Null

AnsweredScript == admPc = "done" /\ evaluated /\ response.type = "review"

\* C11: for every script output, an admission response with allowed=false
\* carries a non-empty status message.
C11_DenialHasMessage ==
    AnsweredScript /\ ~response.allowed => response.message # ""

\* C12: a response carries a patch only when the script returned a
\* non-empty list of JSON-Patch operations and only on the mutate route; a
\* response of the validate route never carries a patch.
C12_PatchOnlyNonEmptyOnMutate ==
    AnsweredScript /\ response.patch.present =>
        /\ admReq.route = "mutate"
        /\ response.patch.operations # <<>>

\* C15: on the validate and mutate routes a rule name that does not exist
\* yields HTTP 404, every other failure of validate / mutate yields HTTP 500
\* with the error message, and no failure is answered with an allowing
\* AdmissionResponse.
C15_FailureStatus ==
    admPc = "done" /\ admError # Null =>
        /\ response.type = "http"
        /\ response.message = admError
        /\ response.status = (IF admError = "RuleNotFound" THEN 404 ELSE 500)
        /\ admError = "RuleNotFound" <=> lookedUp /\ ~admRule.found /\ ~evaluated
                                         /\ response.status = 404

\* a request for a rule that does not exist has been answered
C15_Witness ==
    admPc = "done" /\ admError = "RuleNotFound" /\ response.type = "http"

\* the evaluation deadline of a rule: min(timeoutSeconds, 10), 10 by default
Deadline(timeout_seconds) ==
    IF timeout_seconds = NoTime \/ timeout_seconds > 10 THEN 10
    ELSE timeout_seconds

\* C13: every script evaluation on the admission path ends within
\* min(timeoutSeconds, 10) seconds: a script is never still running after
\* its deadline.
C13_EvaluationWithinDeadline ==
    admPc = "eval" => evalElapsed <= Deadline(admRule.timeoutSeconds)

(***************************************************************************)
(* CronPolicy reconciler: the claims                                       *)
(***************************************************************************)

\* what the checker's ServiceAccount may do: the rules of every Role that a
\* RoleBinding of its namespace binds to it, and of every ClusterRole that
\* a ClusterRoleBinding binds to it (namespace Null: cluster-wide)
Granted ==
    {[namespace |-> b.namespace, rule |-> pr] :
        <<b, pr>> \in UNION {
            {<<b, pr>> : pr \in UNION {r.rules : r \in
                {r \in objects :
                    /\ r.kind = b.roleRef.kind
                    /\ r.name = b.roleRef.name
                    /\ r.namespace = b.namespace}}} :
            b \in {b \in objects :
                     /\ b.kind \in {"RoleBinding", "ClusterRoleBinding"}
                     /\ Subject(PolicyName, PolicyNamespace) \in b.subjects}}}

\* what the resources of a spec enumerate
Enumerated(resources) ==
    {[namespace |-> r.namespace, rule |-> PolicyRule(r)] : r \in resources}

\* the last reconcile returned Ok for the spec the policy now has, and no
\* other is scheduled or in flight
ReconciledCurrent ==
    /\ ~polQueued /\ ~polRun.busy
    /\ polReconciled.ok /\ polReconciled.spec = polSpec

\* C8: after any sequence of spec updates, each followed by a successful
\* reconcile, the Roles, RoleBindings, ClusterRole and ClusterRoleBinding
\* that bind the policy's ServiceAccount grant get / list only on the
\* resources the current spec enumerates.
C8_GrantsOnlyCurrentSpec ==
    ReconciledCurrent => Granted \subseteq Enumerated(polSpec)

(***************************************************************************)
(* Concurrent script evaluations: the claims                               *)
(***************************************************************************)

\* no two evaluations share a sandbox, and the request global of the
\* sandbox in which a script is about to run is its evaluation's request
OwnSandbox ==
    \A q \in Reqs :
        /\ \A o \in Reqs \ {q} :
               evSandbox[q] # 0 => evSandbox[q] # evSandbox[o]
        /\ evThread[q] = "loaded" =>
               sandboxes[evSandbox[q]].request = evReq[q].uid

\* what the handler of q got is the outcome of the evaluation of q
OwnOutcome(q) ==
    \/ /\ evOutcome[q].kind = "ok"
       /\ evOutcome[q].output = evReq[q].uid
       /\ evOutcome[q] = evResult[q]
    \/ /\ evOutcome[q].kind = "error"
       /\ evOutcome[q].error \notin {"RecvError", "CreateTokioRuntime"}
       /\ evOutcome[q] = evResult[q]
    \/ /\ evOutcome[q] = ErrResult("RecvError")
       /\ evThread[q] = "dead"

C17_ExitStatusTellsViolation ==
    ckPc = "exited" =>
        /\ ~ckOutput.present => ckExit = 0
        /\ ckOutput.present /\ ckOutput.map # {} => ckExit # 0

(***************************************************************************)
(* CronPolicy admission: the claims                                        *)
(***************************************************************************)

\* the groups whose preferred version has the kind, and that version
PreferredVersion(g) ==
    (CHOOSE i \in DOMAIN PreferredPairs : PreferredPairs[i][1] = g)
PreferredHosts(hosting) ==
    {g \in {"apps", "ext", ""} :
        PreferredPairs[PreferredVersion(g)] \in hosting}

\* what the webhook is to decide for one selector: "keep", "fill" with a
\* group and version, or deny ("absent", "version only", "multiple")
Decision(sel, hosting) ==
    IF sel.group # Null /\ sel.version # Null
    THEN IF <<sel.group, sel.version>> \in hosting
         THEN [verdict |-> "keep", group |-> sel.group,
               version |-> sel.version]
         ELSE [verdict |-> "absent"]
    ELSE IF sel.version # Null THEN [verdict |-> "version only"]
    ELSE IF sel.group # Null
    THEN IF sel.group \in PreferredHosts(hosting)
         THEN [verdict |-> "fill", group |-> sel.group,
               version |-> PreferredPairs[PreferredVersion(sel.group)][2]]
         ELSE [verdict |-> "absent"]
    ELSE IF PreferredHosts(hosting) = {} THEN [verdict |-> "absent"]
    ELSE IF Cardinality(PreferredHosts(hosting)) > 1
    THEN [verdict |-> "multiple"]
    ELSE LET g == CHOOSE g \in PreferredHosts(hosting) : TRUE IN
         [verdict |-> "fill", group |-> g,
          version |-> PreferredPairs[PreferredVersion(g)][2]]

Accepts(d) == d.verdict \in {"keep", "fill"}

\* the selectors of the request that are to be denied
Failing ==
    {i \in DOMAIN paReq.resources :
        ~Accepts(Decision(paReq.resources[i], paReq.hosting))}

\* C18: for each resource selector of an incoming CronPolicy, in list order:
\* group and version given -> accepted only if that pair has the kind;
\* version without group -> denied; neither -> filled in when exactly one
\* group's preferred version has the kind, denied when none has, denied with
\* "multiple matching group/versions" when several have; group only ->
\* version filled in from the group's preferred version, denied if that does
\* not have the kind.  The first failing selector decides the denial, and a
\* denied response carries no patch.
C18_SelectorsResolved ==
    /\ paPc \in {"loop", "done"} =>
          \A i \in 1..(paNext - 1) :
              LET d == Decision(paReq.resources[i], paReq.hosting) IN
              /\ Accepts(d)
              /\ paCp[i] = [group |-> d.group, version |-> d.version]
    /\ paPc = "done" /\ paResponse.type = "review" =>
          /\ paResponse.allowed <=> Failing = {}
          /\ paResponse.allowed =>
                /\ paNext = Len(paReq.resources) + 1
                /\ paResponse.patch.present
                /\ paResponse.patch.operations =
                       Diff(paReq.resources, paCp)
          /\ ~paResponse.allowed =>
                /\ ~paResponse.patch.present
                /\ paNext \in Failing
                /\ \A i \in Failing : paNext <= i
                /\ paResponse.message # <<>>
                /\ (Head(paResponse.message) =
                       "kind has multiple matching group/versions")
                      <=> Decision(paReq.resources[paNext],
                                   paReq.hosting).verdict = "multiple"

\* a policy whose first selector was filled in and whose second selector
\* was denied because two groups have the kind
C18_Witness ==
    /\ paPc = "done" /\ paResponse.type = "review"
    /\ ~paResponse.allowed
    /\ paNext = 2
    /\ paCp[1] # paReq.resources[1]
    /\ Head(paResponse.message) = "kind has multiple matching group/versions"

(***************************************************************************)
(* RBAC resource names: the claims                                         *)
(***************************************************************************)

\* the plural that the rule of the claim gives a lower-cased word
RulePlural(word) ==
    LET n == Len(word) IN
    IF \/ n >= 1 /\ word[n] \in {"s", "x", "z"}
       \/ n >= 2 /\ <<word[n - 1], word[n]>> \in {<<"c", "h">>, <<"s", "h">>}
    THEN word \o <<"e", "s">>
    ELSE IF /\ n >= 2 /\ word[n] = "y"
            /\ word[n - 1] \notin {"a", "e", "i", "o", "u"}
    THEN [i \in 1..(n + 2) |->
             IF i < n THEN word[i] ELSE <<"i", "e", "s">>[i - n + 1]]
    ELSE word \o <<"s">>

\* the canonical table: Pod, Class, Proxy, DaemonSet, Quota
CanonicalPlural(kind) ==
    CASE kind = <<"P", "o", "d">> -> <<"p", "o", "d", "s">>
      [] kind = <<"C", "l", "a", "s", "s">> ->
            <<"c", "l", "a", "s", "s", "e", "s">>
      [] kind = <<"P", "r", "o", "x", "y">> ->
            <<"p", "r", "o", "x", "i", "e", "s">>
      [] kind = <<"D", "a", "e", "m", "o", "n", "S", "e", "t">> ->
            <<"d", "a", "e", "m", "o", "n", "s", "e", "t", "s">>
      [] kind = <<"Q", "u", "o", "t", "a">> ->
            <<"q", "u", "o", "t", "a", "s">>

\* C19: without an explicit plural the RBAC resource name is the pluralizer
\* applied to the lower-cased kind: a word ending in s, x, z, ch or sh gets
\* "es", a word ending in y preceded by a consonant loses the y and gets
\* "ies", any other word gets "s"; Pod, Class, Proxy, DaemonSet, Quota give
\* pods, classes, proxies, daemonsets, quotas; an explicit plural is used
\* unchanged.
C19_ResourceNameIsPlural ==
    plPc = "done" =>
        /\ ~plResult.panicked
        /\ plPlural.some => plResult.resource = plPlural.value
        /\ ~plPlural.some =>
               plResult.resource = RulePlural(to_ascii_lowercase(plKind))
        /\ ~plPlural.some /\ plKind \in CanonicalKinds =>
               plResult.resource = CanonicalPlural(plKind)

(***************************************************************************)
(* The Lua helper lookup: the claims                                       *)
(***************************************************************************)

\* the value reached after the first i keys; nil once a key is missing or
\* the value before it is not a table
RECURSIVE Reached(_, _, _)
Reached(v, keys, i) ==
    IF i = 0
    THEN v
    ELSE LET before == Reached(v, keys, i - 1) IN
         IF before.type = "table" THEN before.fields[keys[i]] ELSE LuaNil

\* every value that is indexed is a table and holds the key
AllPresent(v, keys) ==
    \A i \in 1..Len(keys) :
        /\ Reached(v, keys, i - 1).type = "table"
        /\ Reached(v, keys, i) # LuaNil

\* C20: lookup(v, k1, ..., kn) returns the value reached by indexing v with
\* k1, then k2, ... when every intermediate value is a table and every key
\* is present; it returns nil, without an error, as soon as a key is missing
\* or an intermediate value (v included) is not a table; with no keys it
\* returns v.
C20_LookupTraverses ==
    lkPc = "done" =>
        /\ lkResult.ok
        /\ AllPresent(lkV, lkKeys) =>
               lkResult.value = Reached(lkV, lkKeys, Len(lkKeys))
        /\ ~AllPresent(lkV, lkKeys) => lkResult.value = LuaNil
        /\ lkKeys = <<>> => lkResult.value = lkV

\* a traversal has stopped at a string before the keys were used up
C20_Witness ==
    /\ lkPc = "done"
    /\ Len(lkKeys) = 3
    /\ Reached(lkV, lkKeys, 1) = LuaString
    /\ lkResult.value = LuaNil

\* a string has been reached through two tables
C20_WitnessHit ==
    /\ lkPc = "done"
    /\ Len(lkKeys) = 2
    /\ AllPresent(lkV, lkKeys)
    /\ lkResult.value = LuaString

(***************************************************************************)
(* TLS material of the webhook server: the claims                          *)
(***************************************************************************)

\* the server runs, every message of the watcher has been handled and the
\* files on disk are a matching pair
TlsSettled ==
    tlsRunning /\ tlsChannel = 0 /\ TlsConsistent(tlsDisk)

\* C21: while the webhook server runs, every change of the certificate or
\* key file triggers a reload of both files, so that once the changes have
\* stopped and the reloads are done the server serves the material on disk.
C21_ServesMaterialOnDisk ==
    TlsSettled => tlsServed = tlsDisk

(***************************************************************************)
(* The expiry of a lease: the claims                                       *)
(***************************************************************************)

\* C22: lease_expired decides: with renewTime set the lease is expired
\* exactly when now > renewTime + leaseDurationSeconds; otherwise, with
\* acquireTime set, exactly when now > acquireTime + leaseDurationSeconds;
\* with neither set it is expired. At the deadline it is not expired, and a
\* set renewTime takes precedence over acquireTime.
C22_ExpiryDecision ==
    exPc = "done" =>
        /\ ~exResult.panicked
        /\ exLease.renewTime # NoTime =>
              (exResult.expired <=>
                  exNow > exLease.renewTime + exLease.duration)
        /\ exLease.renewTime = NoTime /\ exLease.acquireTime # NoTime =>
              (exResult.expired <=>
                  exNow > exLease.acquireTime + exLease.duration)
        /\ exLease.renewTime = NoTime /\ exLease.acquireTime = NoTime =>
              exResult.expired

\* the same decision for the leases that carry leaseDurationSeconds
C22_ExpiryDecisionWithDuration ==
    exPc = "done" /\ exLease.duration # NoTime =>
        /\ ~exResult.panicked
        /\ exLease.renewTime # NoTime =>
              (exResult.expired <=>
                  exNow > exLease.renewTime + exLease.duration)
        /\ exLease.renewTime = NoTime /\ exLease.acquireTime # NoTime =>
              (exResult.expired <=>
                  exNow > exLease.acquireTime + exLease.duration)
        /\ exLease.renewTime = NoTime /\ exLease.acquireTime = NoTime =>
              exResult.expired

(***************************************************************************)
(* The lease object and its writers: the claims                            *)
(***************************************************************************)

\* C23: when a process found the lease absent and its create request fails
\* because the lease exists by then (conflict), acquire_or_create goes back
\* to probing the lease; it does not return an error.
C23_ConflictGoesBackToProbe ==
    [][\A p \in Procs :
          (/\ pc[p] = "creating" /\ lease.exists /\ ~shutdown[p]
           /\ apiFailures' = apiFailures /\ pc'[p] # pc[p])
          => pc'[p] = "probe"]_vars

\* leaseTransitions of a lease, an unset value counting as 0
Transitions(l) == IF l.transitions = NoTime THEN 0 ELSE l.transitions

\* the step is a take-over or a creation of the lease by p
Acquires(p) == pc[p] \in {"patching", "creating"} /\ pc'[p] = "acquired"

\* C24: leaseTransitions counts acquisitions: creating the lease sets it to
\* 1; a take-over of an existing lease happens only when it is expired and
\* sets it to the previous value plus one (unset counts as 0), with
\* holderIdentity the acquirer, acquireTime now and renewTime null; no
\* other write changes it, so it never decreases.
C24_TransitionsCountAcquisitions ==
    [][/\ \A p \in Procs :
             Acquires(p) =>
                /\ lease'.holder = p
                /\ lease'.acquireTime = now
                /\ lease'.renewTime = NoTime
                /\ lease'.transitions =
                      IF lease.exists THEN Transitions(lease) + 1 ELSE 1
                /\ pc[p] = "patching" => lease_expired(lease, now)
       /\ (\A p \in Procs : ~Acquires(p)) /\ lease.exists =>
             lease'.exists /\ lease'.transitions = lease.transitions
       /\ lease.exists => lease'.exists
                          /\ Transitions(lease') >= Transitions(lease)]_vars

\* a lease without leaseTransitions has been taken over
C24_Witness ==
    /\ lease.exists
    /\ lease.transitions = 1
    /\ lease.rv = 2
    /\ lease.holder \in Procs
    /\ lease.renewTime = NoTime

\* the step is a write of p's renewal task that the API server accepted
Renews(p) ==
    /\ renew[p] = "loop" /\ renew'[p] = "loop"
    /\ nextTick'[p] # nextTick[p]
    /\ apiFailures' = apiFailures
Releases(p) ==
    /\ renew[p] = "loop" /\ renew'[p] = "released"
    /\ apiFailures' = apiFailures

C26_NoWriteToForeignLease ==
    [][\A p \in Procs :
          /\ Renews(p) \/ Releases(p) =>
                lease' = lease \/ lease.holder = p
          /\ Renews(p) =>
                lease.renewTime = NoTime
                \/ now >= lease.renewTime + LEASE_DURATION_SECONDS
                \/ lease.holder # p]_vars

(***************************************************************************)
(* The shared CA bundle: the claims                                        *)
(***************************************************************************)

\* C27: when reload_ca_bundle read a content equal to the stored CA bundle
\* it returns at once: the stored bundle is unchanged, no webhook
\* configuration is listed, annotated or applied, no reconcile is scheduled
\* and no error is reported.
C27_EqualContentIsNoOp ==
    [][(reload.pc = "read" /\ reload.content = caBundle /\ reload' # reload)
          => /\ reload' = IdleReload
             /\ caBundle' = caBundle
             /\ wcs' = wcs
             /\ queued' = queued
             /\ ruleFailures' = ruleFailures]_vars

\* the file was written with the content the controller already holds, and
\* the reload that its event started has returned
C27_Witness ==
    /\ writes = 1
    /\ caFile = "B0" /\ caBundle = "B0"
    /\ events = 0
    /\ reload = IdleReload

\* the caBundle a webhook configuration carries
BundlesOf(o) == {o.webhooks[i].clientConfig.caBundle : i \in DOMAIN o.webhooks}

\* C28: a rule reconcile reads the shared CA bundle once and the webhook
\* configuration it applies carries exactly the value it read, also when
\* the reloader swaps the bundle while the reconcile is in flight.
C28_AppliedBundleIsTheOneRead ==
    [][\A r \in Rules :
          /\ ~run[r].busy /\ run'[r].busy =>
                BundlesOf(run'[r].body) = {caBundle}
          /\ run[r].busy /\ run'[r].busy => run'[r].body = run[r].body
          /\ run[r].busy /\ ~run'[r].busy /\ ruleFailures' = ruleFailures =>
                \E o \in wcs' :
                    /\ o.kind = ConfigKind(r[1]) /\ o.name = r[2]
                    /\ BundlesOf(o) = BundlesOf(run[r].body)]_vars

\* the reloader has swapped the bundle while a reconcile that read the
\* former one is in flight
C28_Witness ==
    \E r \in Rules :
        /\ run[r].busy
        /\ BundlesOf(run[r].body) = {"B0"}
        /\ caBundle = "B1"

(***************************************************************************)
(* Reconcile errors: the claims                                            *)
(***************************************************************************)

\* C29: when a rule or policy reconcile fails with an API error the object
\* is requeued 3 seconds later and reconciled again, so that once the
\* failures have stopped the managed objects are applied; the controller is
\* never ended by a reconcile error, and a successful reconcile asks for no
\* timed requeue.
C29_FailedReconcileIsRetried ==
    /\ [][/\ rqFailures' # rqFailures /\ rqPc = "running" =>
                rqPc' = "waiting" /\ rqRunAt' = rqNow + 3
          /\ rqPc = "waiting" /\ rqPc' = "queued" /\ rqEdits' = rqEdits =>
                rqNow >= rqRunAt
          /\ rqPc = "running" /\ rqPc' # "running"
             /\ rqFailures' = rqFailures /\ rqEdits' = rqEdits =>
                rqPc' = "idle" /\ rqRunAt' = NoTime /\ rqApplied'
          /\ rqController' = "running"]_vars
    /\ <>[](rqApplied /\ rqPc = "idle")

\* a reconcile failed and the object was reconciled again three seconds
\* later
C29_Witness ==
    /\ rqFailures >= 1
    /\ rqEdits = 0
    /\ rqNow = 3
    /\ rqApplied
    /\ rqPc = "idle"

(***************************************************************************)
(* The RBAC objects of a policy: the claims                                *)
(***************************************************************************)

\* the rules are one per resource, with verb get and the name as resource
\* name when the resource gives a name, with verb list otherwise
OneRulePerResource(held, resources) ==
    /\ Cardinality(held) = Cardinality(resources)
    /\ \A r \in resources :
          \E made \in held :
             /\ made.resourceName = r.name
             /\ made.verb = IF r.name # Null THEN "get" ELSE "list"
    /\ \A made \in held :
          /\ made.verb \in {"get", "list"}
          /\ made.verb = "get" <=> made.resourceName # Null

\* the binding binds the role of its kind to the policy's ServiceAccount
\* in the job namespace of the call
BindsServiceAccount(binding, role) ==
    /\ binding.roleRef = [kind |-> role.kind, name |-> role.name]
    /\ binding.namespace = role.namespace
    /\ binding.subjects =
          {[kind |-> "ServiceAccount", name |-> PolicyName,
            namespace |-> rbArgs.cronjob_namespace]}

\* C30: make_roles_and_clusterroles partitions the resources by namespace:
\* one Role and one RoleBinding per distinct target namespace, the Role
\* with one rule per resource of that namespace (get with the name, or
\* list); a ClusterRole and ClusterRoleBinding exactly when some resource
\* has no namespace, with one rule per such resource; nothing for an empty
\* list; every binding's subject is the policy's ServiceAccount in the
\* policy's job namespace.
C30_RolesPartitionResources ==
    rbOut.made =>
        LET resources == rbArgs.resources
            global == {r \in resources : r.namespace = Null}
            roles == rbOut.value.roles
            clusterrole == rbOut.value.clusterrole
        IN /\ DOMAIN roles = {r.namespace : r \in resources} \ {Null}
           /\ \A ns \in DOMAIN roles :
                 /\ Len(roles[ns]) = 2
                 /\ roles[ns][1].kind = "Role"
                 /\ roles[ns][1].namespace = ns
                 /\ roles[ns][2].kind = "RoleBinding"
                 /\ OneRulePerResource(roles[ns][1].rules,
                                       {r \in resources : r.namespace = ns})
                 /\ BindsServiceAccount(roles[ns][2], roles[ns][1])
           /\ clusterrole # <<>> <=> global # {}
           /\ global # {} =>
                 /\ Len(clusterrole) = 2
                 /\ clusterrole[1].kind = "ClusterRole"
                 /\ clusterrole[2].kind = "ClusterRoleBinding"
                 /\ OneRulePerResource(clusterrole[1].rules, global)
                 /\ BindsServiceAccount(clusterrole[2], clusterrole[1])
           /\ resources = {} =>
                 DOMAIN roles = {} /\ clusterrole = <<>>

\* the function has returned for resources in two namespaces, one with a
\* name and one without, and a job namespace of its own
C30_Witness ==
    /\ rbOut.made
    /\ rbArgs.cronjob_namespace = "jobs"
    /\ \E r1, r2 \in rbArgs.resources :
          /\ r1.namespace = "a" /\ r2.namespace = "b"
          /\ r1.name = Null /\ r2.name # Null

\* the rules of the resources in the order the policy spec lists them
RulesInSpecOrder(ns) == RulesInOrder(ResourcesOf(rbArgs.list, ns))

\* C31: the output of make_roles_and_clusterroles is ordered: the Roles in
\* ascending order of their namespace, and the rules of each Role and of
\* the ClusterRole in the order of their resources in the policy spec,
\* whatever order the futures complete in.
C31_OutputInSpecOrder ==
    rbOut.made =>
        /\ \A i, j \in DOMAIN rbOut.roles :
              i < j => NamespaceRank(rbOut.roles[i].namespace)
                          < NamespaceRank(rbOut.roles[j].namespace)
        /\ \A i \in DOMAIN rbOut.roles :
              rbOut.roles[i].rules = RulesInSpecOrder(rbOut.roles[i].namespace)
        /\ rbOut.clusterrules = RulesInSpecOrder(Null)

\* the same for a policy whose resources all give their group: no future
\* waits, and the order is the one of the map and of the spec
C31_OrderedWhenNoFutureWaits ==
    (rbOut.made /\ \A r \in rbArgs.resources : ~Suspends(r)) =>
        /\ \A i, j \in DOMAIN rbOut.roles :
              i < j => NamespaceRank(rbOut.roles[i].namespace)
                          < NamespaceRank(rbOut.roles[j].namespace)
        /\ \A i \in DOMAIN rbOut.roles :
              rbOut.roles[i].rules = RulesInSpecOrder(rbOut.roles[i].namespace)
        /\ rbOut.clusterrules = RulesInSpecOrder(Null)

(***************************************************************************)
(* The audit worker: a failing script and the notifications                *)
(***************************************************************************)

\* the step of main in which execute_script or the eval of the output
\* returns an error
ScriptFails == ckPc = "execute" /\ ckPc' = "failed"

\* C32: when the audit script fails with a syntax or runtime error, the
\* audit worker sends no notification and exits with status zero.
C32_ScriptErrorExitsZero ==
    [][ScriptFails => ckSent' = {} /\ ckExit' = 0]_vars

\* the part of it that main does: no notification is sent for a script
\* that failed
C32_ScriptErrorSendsNothing ==
    [][ScriptFails => ckSent' = {} /\ ckPc' # "notify_slack"]_vars

(***************************************************************************)
(* The resources the audit worker fetches: the claims                      *)
(***************************************************************************)

\* element i of the fetched list is what the API answered for resource i:
\* a single object or null by get_opt when the resource has a name, a list
\* by list with the resource's selectors otherwise
FetchedInOrder(value) ==
    /\ Len(value) = Len(ftList)
    /\ \A i \in DOMAIN ftList :
          /\ value[i] = ftResults[i]
          /\ IF ftList[i].name # Null
             THEN /\ value[i].kind = "Single"
                  /\ value[i].object \in {Null, ftList[i].name}
                  /\ ftCalls[i] = [call |-> "get_opt",
                                   name |-> ftList[i].name]
             ELSE /\ value[i].kind = "List"
                  /\ ftCalls[i].call = "list"
                  /\ ftList[i].list_params.some =>
                        /\ ftCalls[i].label_selector =
                              ftList[i].list_params.label_selector
                        /\ ftCalls[i].field_selector =
                              ftList[i].list_params.field_selector
                  /\ ~ftList[i].list_params.some =>
                        /\ ftCalls[i].label_selector = Null
                        /\ ftCalls[i].field_selector = Null

\* C33: fetch_resources returns a list of the length and in the order of
\* the policy's resource list whatever order the fetches complete in, a
\* single object or null for a resource with a name and a list otherwise;
\* if any fetch fails the whole fetch fails and the script is not run.
C33_FetchKeepsOrder ==
    /\ (ftOut.returned /\ ftOut.ok) => FetchedInOrder(ftOut.value)
    /\ (ftOut.returned /\ \E i \in DOMAIN ftResults : ftResults[i].kind = "Err")
          => ~ftOut.ok
    /\ ftScript.returned =>
          /\ ftOut.returned /\ ftOut.ok
          /\ ftScript.resources = ftOut.value
          /\ \A i \in DOMAIN ftResults : ftResults[i].kind \notin {"Err", "Pending"}
    /\ ftPc = "failed" => ~ftScript.returned

\* the script runs with two resources, a named one and a listed one, whose
\* fetches finished in the reverse of their order
C33_Witness ==
    /\ ftScript.returned
    /\ ftOrder = <<2, 1>>
    /\ ftList[1].name # Null /\ ftList[2].name = Null
    /\ ftList[2].list_params.some
    /\ ftOut.value[2].items # <<>>

\* the targets of the attempts made so far, in their order
AttemptedTargets == [i \in DOMAIN ckAttempts |-> ckAttempts[i].target]

\* C34: when the script yields an output map, every configured target is
\* attempted once with the context {policy.name, output.*}, whether or not
\* the other delivery failed, and the exit status is zero; when the script
\* yields no output, no notification is attempted.
C34_EveryTargetAttemptedOnce ==
    /\ ckPc = "exited" =>
          /\ ckExit = 0
          /\ AttemptedTargets =
                IF ~ckOutput.present THEN <<>>
                ELSE (IF ckNotifications.slack THEN <<"slack">> ELSE <<>>)
                      \o (IF ckNotifications.webhook THEN <<"webhook">>
                          ELSE <<>>)
    /\ \A i \in DOMAIN ckAttempts :
          /\ ckOutput.present
          /\ <<<<"policy", "name">>, PolicyName>> \in ckAttempts[i].context
          /\ \A kv \in ckOutput.map :
                <<<<"output", kv[1]>>, kv[2]>> \in ckAttempts[i].context
          /\ Cardinality(ckAttempts[i].context) =
                Cardinality(ckOutput.map) + 1
    /\ ckSent \subseteq {AttemptedTargets[i] : i \in DOMAIN ckAttempts}

\* the worker has exited: both targets are configured, the script left an
\* output of two keys, the Slack delivery failed and the webhook was sent
C34_Witness ==
    /\ ckPc = "exited"
    /\ ckNotifications.slack /\ ckNotifications.webhook
    /\ ckOutput.present /\ Cardinality(ckOutput.map) = 2
    /\ ckSent = {"webhook"}

\* a JSON patch applied to the resources of a policy: every operation sets
\* the field it names in the resource it names
ApplyPatch(orig, operations) ==
    [i \in DOMAIN orig |->
        [f \in DOMAIN orig[i] |->
            IF \E op \in operations : op[1] = i /\ op[2] = f
            THEN (CHOOSE op \in operations : op[1] = i /\ op[2] = f)[3]
            ELSE orig[i][f]]]

\* the webhook answered with an accepting review
PolicyAccepted ==
    paPc = "done" /\ paResponse.type = "review" /\ paResponse.allowed

FwPending ==
    {fwQueue[i] : i \in DOMAIN fwQueue}
        \cup {fwChannel[i] : i \in DOMAIN fwChannel}
\* the events the handler was called with
FwCalled == {fwCalls[i] : i \in DOMAIN fwCalls}

\* the handler has the last word: when nothing waits for the loop and no
\* re-registration failed, the last handler call began after the last
\* change of the file
HandlerSeesLastChange ==
    (/\ FwPending = {} /\ fwPc # "ended" /\ ~fwStopped
     /\ "Failed to re-watch file" \notin fwLog
     /\ fwChanges > 0)
        => fwCalls # <<>> /\ fwSeen = fwChanges

\* C36: after a remove event (atomic replace) the loop watches the path
\* again before it calls the handler, so that every later change of the
\* path gives an event and a handler call: unless a re-registration failed,
\* the file at the path has no watch only while the remove event of its
\* replacement waits for the loop; a change of a watched file gives an
\* event, and an event leaves the channel only into a handler call.  A
\* failed re-registration or a watch error is logged and does not end the
\* loop, which ends only when the stopper has stopped.
C36_RewatchOnRemove ==
    /\ [](/\ (fwWatch # fwInode
                 /\ "Failed to re-watch file" \notin fwLog
                 /\ fwPc # "ended")
              => \E e \in FwPending : e.kind = "remove"
          /\ HandlerSeesLastChange
          /\ fwPc = "ended" => fwStopped)
    /\ [][/\ (fwChanges' # fwChanges /\ fwWatch = fwInode)
                => \E e \in FwPending' : e.change = fwChanges'
          /\ \A e \in FwPending :
                \/ e \in FwPending' \/ e \in FwCalled'
                \/ e.kind = "error" /\ "Failed to watch files" \in fwLog'
                \/ fwPc = "ended"
          /\ (fwCalls' # fwCalls /\ Head(fwChannel).kind = "remove"
                  /\ "Failed to re-watch file" \notin fwLog')
                => fwWatch' = fwInode]_vars

\* the handler was called for a remove event and, later, for a change
\* of the file that replaced the removed one
C36_Witness ==
    /\ "Failed to re-watch file" \notin fwLog
    /\ \E i, j \in DOMAIN fwCalls :
          /\ i < j
          /\ fwCalls[i].kind = "remove"
          /\ fwCalls[j].kind = "modify"

\* C38: the FileWatcher runs the handler calls one at a time, in the order
\* the events are received: a call begins only when the call before it has
\* finished, with the event at the head of the channel, so two runs of the
\* handler never overlap; no call begins after the stopper has stopped.
C38_OneHandlerAtATime ==
    /\ [](/\ fwRunning <= 1
          /\ fwRunning = 1 <=> fwPc = "handler"
          /\ \A i, j \in DOMAIN fwCalls :
                i < j => fwCalls[i].change < fwCalls[j].change)
    /\ [][fwCalls' # fwCalls
             => /\ ~fwStopped
                /\ fwRunning = 0 /\ fwRunning' = 1
                /\ fwCalls' = Append(fwCalls, Head(fwChannel))]_vars

\* the handler was called twice, the stopper stopped and the loop ended
\* while an event was waiting
C38_Witness ==
    /\ Len(fwCalls) >= 2
    /\ fwStopped /\ fwPc = "ended"
    /\ FwPending # {}

(***************************************************************************)
(* The order of the applies of one reconcile                               *)
(***************************************************************************)

\* the place of a kind in the order of the applies
ApplyRank(kind) ==
    CASE kind = "ServiceAccount" -> 1
      [] kind \in {"Role", "RoleBinding"} -> 2
      [] kind \in {"ClusterRole", "ClusterRoleBinding"} -> 3
      [] kind = "CronJob" -> 4

\* every RBAC object make_roles_and_clusterroles has made
RbacObjects ==
    UNION {Range(rbOut.value.roles[ns]) : ns \in DOMAIN rbOut.value.roles}
        \cup Range(rbOut.value.clusterrole)

\* C37: reconcile_cronpolicy applies the ServiceAccount first, then each
\* Role followed at once by the RoleBinding of its namespace, then the
\* ClusterRole followed by the ClusterRoleBinding, then the CronJob last;
\* the CronJob is applied only when every RBAC object of the reconcile
\* has been applied, and after an apply has failed nothing more is
\* written.
C37_AppliesInFixedOrder ==
    /\ [](/\ rbWritten # <<>> => rbWritten[1].kind = "ServiceAccount"
          /\ \A i, j \in DOMAIN rbWritten :
                i < j => /\ ApplyRank(rbWritten[i].kind)
                               <= ApplyRank(rbWritten[j].kind)
                         /\ rbWritten[i] # rbWritten[j]
          /\ \A i \in DOMAIN rbWritten :
                /\ rbWritten[i].kind \in {"RoleBinding", "ClusterRoleBinding"}
                      => /\ rbWritten[i - 1].kind = rbWritten[i].roleRef.kind
                         /\ rbWritten[i - 1].namespace = rbWritten[i].namespace
                /\ (rbWritten[i].kind \in {"Role", "ClusterRole"}
                          /\ i < Len(rbWritten))
                      => /\ rbWritten[i + 1].roleRef.kind = rbWritten[i].kind
                         /\ rbWritten[i + 1].namespace = rbWritten[i].namespace
                /\ rbWritten[i].kind = "CronJob"
                      => /\ i = Len(rbWritten)
                         /\ rbOut.made
                         /\ RbacObjects
                               \subseteq {rbWritten[k] : k \in 1..(i - 1)})
    /\ [][rbPc = "failed" => Len(rbWritten') <= Len(rbWritten)]_vars
    /\ [][Len(rbWritten') > Len(rbWritten)
             => rbWritten' = Append(rbWritten, rbWritten'[Len(rbWritten')])]_vars

\* a reconcile with two Roles has applied its CronJob
C37_Witness ==
    /\ rbPc = "ok"
    /\ Len(rbWritten) = 6
    /\ rbWritten[2].kind = "Role" /\ rbWritten[4].kind = "Role"
    /\ rbWritten[6].kind = "CronJob"

\* an apply failed between a Role and its RoleBinding: the RoleBinding and
\* the CronJob were not written
C37_AbortWitness ==
    /\ rbPc = "failed"
    /\ rbWritten # <<>>
    /\ rbWritten[Len(rbWritten)].kind = "Role"

(***************************************************************************)
(* A reload of the CA bundle that fails                                    *)
(***************************************************************************)

\* reload_ca_bundle returns an error after it has read the file: a list
\* or an apply has failed
ReloadFails ==
    /\ reload.pc \in {"list_validate", "list_mutate", "patch"}
    /\ reload'.pc = "idle"
    /\ ~(reload.pc = "patch" /\ reload.todo = {})

\* C39: when reload_ca_bundle returns an error the shared CA bundle is
\* unchanged from its value before the call.  The call went past the
\* comparison, so that value was not the content it read: the bundle is
\* still not that content, and a later reload that reads the same
\* content is not skipped as unchanged.
C39_FailedReloadKeepsBundle ==
    [][ReloadFails => caBundle' # reload.content]_vars

(***************************************************************************)
(* The CLI test runner: the claims                                         *)
(***************************************************************************)

\* the places of the rules that denied
CliDenials == {i \in DOMAIN clResults : ~clResults[i].allowed}

\* C40: run_case evaluates the rules in order and stops at the first rule
\* that denies: no rule is evaluated after a denial, and the actual
\* outcome of the case is that denial with the message of that rule.
C40_StopsAtFirstDenial ==
    /\ \A i \in CliDenials : i = Len(clResults)
    /\ (clPc = "compare" /\ CliDenials # {}) =>
          \E i \in CliDenials :
             /\ \A j \in CliDenials : i <= j
             /\ ~clActual.allowed
             /\ clActual.message = clResults[i].message

\* the part of it that holds: the mutating rules come first and in the
\* order of their list, each given the object as the rules before it
\* have patched it; the validating rules follow in the order of theirs;
\* no mutating rule is evaluated after a denial, and no validating rule
\* after the denial of a validating rule
C40_InOrderUntilDenialOfTheSameKind ==
    LET n == Len(clResults)
        mutated == {i \in 1..n :
                       \E k \in 1..n : clResults[i].rule = RuleName("mutating", k)}
    IN  /\ \A i \in mutated :
              /\ clResults[i].rule = RuleName("mutating", i)
              /\ clResults[i].saw =
                    {clResults[k].rule :
                       k \in {m \in 1..(i - 1) :
                                 clCase.mutating_rules[m].patches}}
              /\ \A k \in 1..(i - 1) : clResults[k].allowed
        /\ \A i \in (1..n) \ mutated :
              /\ clResults[i].rule =
                    RuleName("validating", i - Cardinality(mutated))
              /\ \A k \in (1..(i - 1)) \ mutated : clResults[k].allowed
              /\ clResults[i].saw = clRequest

\* a mutating rule denied, a validating rule was evaluated after it and
\* allowed, and the case is compared as allowed
C40_DenialOverwritten ==
    /\ clPc = "compare"
    /\ CliDenials # {}
    /\ clActual.allowed

====
